---- MODULE Spec2Model ----
(***************************************************************************)
(* Model of the audio-reactive visualizer (class Visualizer, 3-band        *)
(* variant, with the render pipeline of the 5-band variant alongside).     *)
(*                                                                         *)
(* Numbers.  The program computes in real-valued (floating point)          *)
(* arithmetic; the model computes the same expressions in fixed point:     *)
(*   amplitudes          in units of 1/AmpUnit        (1.0 = AmpUnit)      *)
(*   time                in ticks of 1/600 s (FrameTicks = 1/60 s)         *)
(*   offsets, positions  in units of 1/10 px                               *)
(*   velocities          in units of 1/100 px/s                            *)
(* Every product is truncated toward zero, so a fixed-point result never   *)
(* exceeds in magnitude the real number it stands for.                     *)
(***************************************************************************)
EXTENDS Integers, Sequences, FiniteSets, TLC

VARIABLES
    isRunning,           \* this.isRunning
    animationId,         \* this.animationId (Null when null)
    pending,             \* handles of the frame callbacks the browser holds
    nextHandle,          \* next handle requestAnimationFrame returns
    now,                 \* performance.now()
    lastFrameTime,       \* this.lastFrameTime
    audioAnalyzer,       \* this.audioAnalyzer is set
    controlParams,       \* this.controlParams
    smoothedAmplitudes,  \* this.smoothedAmplitudes
    driftOffsets,        \* this.driftOffsets
    driftVelocities,     \* this.driftVelocities
    emphasisPositions,   \* this.emphasisPositions
    frame,               \* what the last render() computed and drew
    smoothed5,           \* this.smoothedAmplitudes of the 5-band variant
    frame5,              \* what the last render() of the 5-band variant computed
    op,                  \* the operation that made the last step
    arg,                 \* the argument of the last setter call
    controlColors,       \* this.controlColors
    colors,              \* this.colors
    analyzerReady,       \* the connected analyzer is initialized (analyser, dataArray set)
    grainImageLoaded,    \* this.grainImageLoaded
    canvas,              \* globalCompositeOperation of this.ctx and this.circleCtx
    app,                 \* the application that hosts the visualizer (MusicVisualizerApp)
    analyzer,            \* the AudioAnalyzer: its spectrum and what it computed last
    drift5               \* anchors, drift positions and velocities of the 5-band variant

vars == <<isRunning, animationId, pending, nextHandle, now, lastFrameTime,
          audioAnalyzer, controlParams, smoothedAmplitudes, driftOffsets,
          driftVelocities, emphasisPositions, frame, smoothed5, frame5, op,
          arg, controlColors, colors, analyzerReady, grainImageLoaded, canvas, app,
          analyzer, drift5>>

(***************************************************************************)
(* Bounds of the model.                                                    *)
(***************************************************************************)
MaxFrames == 2
MaxTime == 120
MaxHostFrames == 4
\* frames a bare visualizer may paint at the end of the clock while its
\* offsets return to the anchors
MaxSettleFrames == 48
MaxEvents == 2
MaxEdits == 1

(***************************************************************************)
(* Units and program constants.                                            *)
(***************************************************************************)
AmpUnit == 10^9
Half == AmpUnit \div 2
FrameTicks == 10
MaxDeltaTime == 60
Null == 0

Bands == {"low", "mid", "high"}
Ranges == {"bass", "lowerMid", "mid", "upperMid", "treble"}

Min(a, b) == IF a < b THEN a ELSE b
Max(a, b) == IF a > b THEN a ELSE b
Abs(a) == IF a < 0 THEN -a ELSE a
Sign(a) == IF a < 0 THEN -1 ELSE IF a > 0 THEN 1 ELSE 0

\* a * b / c for a >= 0, b >= 0, c > 0, truncated, without leaving 32 bits
MulDivN(a, b, c) == (a \div c) * b + ((a % c) * b) \div c
\* a * b / c for any a and b >= 0, truncated toward zero
MulDiv(a, b, c) == Sign(a) * MulDivN(Abs(a), b, c)

\* e^x in units of 10^-6 for x >= 0 given in units of 10^-4 (Taylor series)
RECURSIVE ExpSeries(_, _, _)
ExpSeries(x, term, k) ==
    IF term = 0 THEN 0
    ELSE term + ExpSeries(x, MulDivN(term, x, 10000) \div k, k + 1)

\* Math.exp(-x) in units of 10^-4, x >= 0 in units of 10^-4; the series is
\* summed for x <= 6, a larger x is halved: exp(-x) = exp(-x/2) * exp(-x/2)
RECURSIVE ExpNeg(_)
ExpNeg(x) ==
    IF x > 60000
    THEN (ExpNeg(x \div 2) * ExpNeg(x - x \div 2)) \div 10000
    ELSE (10^9) \div (ExpSeries(x, 10^6, 1) \div 10)

(***************************************************************************)
(* Inputs.                                                                 *)
(***************************************************************************)
Silent == [r \in Ranges |-> 0]

\* results of audioAnalyzer.analyze()
AnalyzerResults ==
    { Silent,
      [r \in Ranges |-> IF r \in {"bass", "mid"} THEN AmpUnit ELSE 0],
      [r \in Ranges |-> IF r = "treble" THEN AmpUnit ELSE Half] }

\* results of audioAnalyzer.analyze() when the application drives the visualizer
HostResults ==
    { Silent, [r \in Ranges |-> IF r \in {"bass", "mid"} THEN AmpUnit ELSE 0] }

\* time the clock advances between two events: a 60 fps frame, two frames, a stall
Advances == {FrameTicks, 2 * FrameTicks, 2 * MaxDeltaTime}
\* frames at display rate
FrameAdvances == {FrameTicks, 2 * FrameTicks}

(***************************************************************************)
(* Signal shaping.                                                         *)
(***************************************************************************)
\* faulty variant: the emphasized amplitude is not capped at 1
applyEmphasisUncapped(amplitude, emphasis) == MulDiv(amplitude, emphasis, 50)

\* faulty variant: the multiplier is emphasis / 100
applyEmphasisPercent(amplitude, emphasis) ==
    Min(AmpUnit, MulDiv(amplitude, emphasis, 100))

applyEmphasis(amplitude, emphasis) ==
    Min(AmpUnit, MulDiv(amplitude, emphasis, 50))

\* faulty variant: full compression reaches 0.5
applyCompressionFull(amplitude, compression) ==
    amplitude + MulDiv(Half - amplitude, compression * 10, 1000)

applyCompression(amplitude, compression) ==
    amplitude + MulDiv(Half - amplitude, compression * 8, 1000)

\* the three emphasis bands from the five frequency ranges
bandTargets(rawAmplitudes) ==
    [b \in Bands |->
        CASE b = "low"  -> Max(rawAmplitudes["bass"], rawAmplitudes["lowerMid"])
          [] b = "mid"  -> rawAmplitudes["mid"]
          [] b = "high" -> Max(rawAmplitudes["upperMid"], rawAmplitudes["treble"])]

attackSpeed(params) == 10000 - 95 * params.attack
decaySpeed(params) == 10000 - 98 * params.decay

\* in units of 10^-7
effectiveSpeed(params, current, target) ==
    LET isAttacking == target > current
        baseSpeed == IF isAttacking THEN attackSpeed(params) ELSE decaySpeed(params)
    IN  baseSpeed * (1000 - 9 * params.inertia)

\* faulty variant: a linear factor, effectiveSpeed * deltaTime * 60
smoothingFactorLinear(speed, deltaTime) == (speed * deltaTime) \div (1000 * FrameTicks)

\* 1 - Math.exp(-effectiveSpeed * deltaTime * 60), in units of 10^-4
smoothingFactor(speed, deltaTime) ==
    10000 - ExpNeg((speed * deltaTime) \div (1000 * FrameTicks))

smoothOne(params, current, target, deltaTime) ==
    current + MulDiv(target - current,
                     smoothingFactor(effectiveSpeed(params, current, target), deltaTime),
                     10000)

smoothAmplitudes(params, state, rawAmplitudes, deltaTime) ==
    LET targets == bandTargets(rawAmplitudes)
    IN  [b \in Bands |-> smoothOne(params, state[b], targets[b], deltaTime)]

(***************************************************************************)
(* Drift engine.                                                           *)
(***************************************************************************)
\* largest k in lo..hi with k * k <= n
RECURSIVE SqrtSearch(_, _, _)
SqrtSearch(n, lo, hi) ==
    IF lo >= hi THEN lo
    ELSE LET mid == (lo + hi + 1) \div 2
         IN  IF mid * mid <= n THEN SqrtSearch(n, mid, hi)
                               ELSE SqrtSearch(n, lo, mid - 1)

\* Math.sqrt rounded down and rounded up
FloorSqrt(n) == SqrtSearch(n, 0, 46340)
CeilSqrt(n) == LET k == FloorSqrt(n) IN IF k * k = n THEN k ELSE k + 1

\* Math.random() - 0.5 in quarters: -0.5, -0.25, 0, 0.25
RandomValues == {-2, 1}

\* one draw per band and axis for a frame
RandomDraws ==
    { [b \in Bands |-> [x |-> -2, y |-> 1]],
      [b \in Bands |-> [x |-> 1, y |-> 1]],
      [b \in Bands |-> IF b = "low" THEN [x |-> 1, y |-> -2] ELSE [x |-> -2, y |-> -2]],
      [b \in Bands |-> IF b = "mid" THEN [x |-> -2, y |-> 1] ELSE [x |-> 1, y |-> -2]] }

\* the draws of a frame when the application drives the visualizer
HostDraws == { [b \in Bands |-> [x |-> 1, y |-> 1]] }

\* the draws of the constructor
InitialDraws ==
    { [b \in Bands |-> [x |-> -2, y |-> -2]],
      [b \in Bands |-> IF b = "low" THEN [x |-> 1, y |-> -2] ELSE [x |-> -2, y |-> 1]] }

Zero2 == [x |-> 0, y |-> 0]

\* 900 * driftAmount * (1 - anchorStability * 0.6), in 1/10 px
effectiveRadius(params) == (90 * params.drift * (1000 - 6 * params.anchor)) \div 1000

\* 200 * driftAmount, in 1/100 px/s
driftBaseSpeed(params) == 200 * params.drift

\* faulty variant: the offsets are left where they are
snapBackKept(offset) == offset

\* the branch of updateDriftOffsets taken when driftAmount === 0
snapBack(offset) ==
    LET x == MulDiv(offset.x, 85, 100)
        y == MulDiv(offset.y, 85, 100)
    IN  [x |-> IF Abs(x) < 10 THEN 0 ELSE x,
         y |-> IF Abs(y) < 10 THEN 0 ELSE y]

Norm2(v) == v.x * v.x + v.y * v.y

\* v * num / den on both axes
scale2(v, num, den) == [x |-> MulDiv(v.x, num, den), y |-> MulDiv(v.y, num, den)]

\* brownian impulse (randomStrength = 800 * driftAmount * deltaTime), then friction
impulse(params, velocity, deltaTime, rnd) ==
    scale2([x |-> velocity.x + MulDiv(rnd.x * params.drift, deltaTime, 3),
            y |-> velocity.y + MulDiv(rnd.y * params.drift, deltaTime, 3)], 97, 100)

\* clamp velocity to max speed
clampSpeed(velocity, baseSpeed) ==
    IF Norm2(velocity) > baseSpeed * baseSpeed
    THEN scale2(velocity, baseSpeed, CeilSqrt(Norm2(velocity)))
    ELSE velocity

\* offset += velocity * deltaTime
integrate(offset, velocity, deltaTime) ==
    [x |-> offset.x + MulDiv(velocity.x, deltaTime, 6000),
     y |-> offset.y + MulDiv(velocity.y, deltaTime, 6000)]

\* Math.min(overshoot * 2, 1) * 300 * deltaTime
pushStrength(dist, radius, deltaTime) ==
    IF 20 * dist - 14 * radius >= 3 * radius
    THEN 50 * deltaTime
    ELSE MulDiv(Max(20 * dist - 14 * radius, 0), 50 * deltaTime, 3 * radius)

\* the soft boundary: push the velocity back toward the centre
softBoundary(offset, velocity, radius, deltaTime) ==
    IF Norm2(offset) > MulDivN(radius * radius, 49, 100)
    THEN LET dist == FloorSqrt(Norm2(offset))
             push == pushStrength(dist, radius, deltaTime)
         IN  [x |-> velocity.x - MulDiv(offset.x, push, dist),
              y |-> velocity.y - MulDiv(offset.y, push, dist)]
    ELSE velocity

\* the hard boundary: bounce the velocity inward
bounce(offset, velocity, radius) ==
    IF Norm2(offset) > radius * radius
    THEN LET dist == FloorSqrt(Norm2(offset))
             dot == MulDiv(velocity.x * offset.x + velocity.y * offset.y, 1, dist)
         IN  IF dot > 0
             THEN [x |-> velocity.x - MulDiv(MulDiv(offset.x, dot, dist), 3, 2),
                   y |-> velocity.y - MulDiv(MulDiv(offset.y, dot, dist), 3, 2)]
             ELSE velocity
    ELSE velocity

\* faulty variant: the hard boundary is missing
clampMissing(offset, radius) == offset

\* the hard boundary: rescale the offset onto the container
clampToRadius(offset, radius) ==
    IF Norm2(offset) > radius * radius
    THEN scale2(offset, radius, CeilSqrt(Norm2(offset)))
    ELSE offset

\* position and velocity after the boundaries
boundaries(offset, velocity, radius, deltaTime) ==
    [offset   |-> clampToRadius(offset, radius),
     velocity |-> bounce(offset, softBoundary(offset, velocity, radius, deltaTime), radius)]

moved(offset, velocity, radius, deltaTime) ==
    boundaries(integrate(offset, velocity, deltaTime), velocity, radius, deltaTime)

\* the loop body of updateDriftOffsets for one band
driftOne(params, offset, velocity, deltaTime, rnd) ==
    moved(offset,
          clampSpeed(impulse(params, velocity, deltaTime, rnd), driftBaseSpeed(params)),
          effectiveRadius(params), deltaTime)

updateDriftOffsets(params, offsets, velocities, deltaTime, rnd) ==
    IF params.drift = 0
    THEN [offsets |-> [b \in Bands |-> snapBack(offsets[b])],
          velocities |-> velocities]
    ELSE LET next == [b \in Bands |->
                         driftOne(params, offsets[b], velocities[b], deltaTime, rnd[b])]
         IN  [offsets |-> [b \in Bands |-> next[b].offset],
              velocities |-> [b \in Bands |-> next[b].velocity]]

(***************************************************************************)
(* Colours.  A colour string is the sequence of its characters.            *)
(***************************************************************************)
Hex(a, b, c, d, e, f) == <<"#", a, b, c, d, e, f>>

HexChars == <<"0", "1", "2", "3", "4", "5", "6", "7", "8", "9",
              "a", "b", "c", "d", "e", "f">>
HexCharsUpper == <<"0", "1", "2", "3", "4", "5", "6", "7", "8", "9",
                   "A", "B", "C", "D", "E", "F">>

\* [a-f\d] with the flag i
IsHexChar(c) == \E i \in 1..16 : HexChars[i] = c \/ HexCharsUpper[i] = c

\* parseInt(cc, 16) of one and of two characters
HexValue(c) == (CHOOSE i \in 1..16 : HexChars[i] = c \/ HexCharsUpper[i] = c) - 1
HexByte(hi, lo) == 16 * HexValue(hi) + HexValue(lo)

Black == [r |-> 0, g |-> 0, b |-> 0]

\* /^#?([a-f\d]{2})([a-f\d]{2})([a-f\d]{2})$/i, black when there is no match
hexToRgb(hex) ==
    LET digits == IF Len(hex) > 0 /\ hex[1] = "#" THEN Tail(hex) ELSE hex
    IN  IF Len(digits) = 6 /\ \A i \in 1..6 : IsHexChar(digits[i])
        THEN [r |-> HexByte(digits[1], digits[2]),
              g |-> HexByte(digits[3], digits[4]),
              b |-> HexByte(digits[5], digits[6])]
        ELSE Black

\* the l of rgbToHsl, 0..100, in units of 1/100
lightness(rgb) ==
    ((Max(rgb.r, Max(rgb.g, rgb.b)) + Min(rgb.r, Min(rgb.g, rgb.b))) * 1000) \div 51

getBackgroundLightness(allColors) == lightness(hexToRgb(allColors.background))

(***************************************************************************)
(* Rendering.                                                              *)
(***************************************************************************)
CanvasWidth == 12000
CanvasHeight == 8000

\* faulty variant: the right circle is the mirror image across the centre line
calculateCirclePositionsMirrored(positions, band) ==
    LET pos == positions[band]
    IN  [left  |-> [x |-> ((100 - pos.x) * CanvasWidth) \div 200,
                    y |-> (pos.y * CanvasHeight) \div 100],
         right |-> [x |-> ((100 + pos.x) * CanvasWidth) \div 200,
                    y |-> (pos.y * CanvasHeight) \div 100]]

calculateCirclePositions(positions, band) ==
    LET pos == positions[band]
    IN  [left  |-> [x |-> ((100 - pos.x) * CanvasWidth) \div 200,
                    y |-> (pos.y * CanvasHeight) \div 100],
         right |-> [x |-> ((100 + pos.x) * CanvasWidth) \div 200,
                    y |-> ((100 - pos.y) * CanvasHeight) \div 100]]

\* the emphasis parameter applied to each frequency range
EmphasisKey(r) ==
    CASE r \in {"bass", "lowerMid"}   -> "lowEmphasis"
      [] r = "mid"                    -> "midEmphasis"
      [] r \in {"upperMid", "treble"} -> "highEmphasis"

\* the colour control that tints each band
ColorKey(b) ==
    CASE b = "low"  -> "lowEmphasis"
      [] b = "mid"  -> "midEmphasis"
      [] b = "high" -> "highEmphasis"

\* faulty variant: the bands keep the colours of the constructor
bandColorsAtConstruction(tints) ==
    [b \in Bands |-> <<"#", "e", "9", "4", "5", "6", "0">>]

\* the colours of the bands array
bandColors(tints) == [b \in Bands |-> tints[ColorKey(b)]]

\* 0.3 + (fieldScale / 100) * 1.7, in units of 1/1000
fieldScaleMultiplier(params) == 300 + 17 * params.fieldScale

\* this.minRadius and this.maxRadius scaled as in render(), in units of 1/1000 px
effectiveMinRadius(params) == 10 * fieldScaleMultiplier(params)
effectiveMaxRadius(params, isLightBg) ==
    (IF isLightBg THEN 1500 ELSE 1000) * fieldScaleMultiplier(params)

\* Math.pow(amplitude, 0.6) in units of 1/50, rounded down: the fifth root of
\* the cube of the amplitude taken in units of 1/50; the final amplitudes are
\* in [0, 1], an amplitude outside is taken at the nearer end
expandedAmplitude(amplitude) ==
    LET a == Max(0, Min(amplitude, AmpUnit)) \div (AmpUnit \div 50)
    IN  CHOOSE r \in 0..50 : r^5 <= a * a * a * 2500 /\ (r + 1)^5 > a * a * a * 2500

\* the radius of a band's circles, in units of 1/1000 px
circleRadius(params, isLightBg, amplitude) ==
    effectiveMinRadius(params)
        + ((effectiveMaxRadius(params, isLightBg) - effectiveMinRadius(params))
              * expandedAmplitude(amplitude)) \div 50

\* isLightBg ? 0.15 : this.minOpacity and isLightBg ? 1.0 : this.maxOpacity,
\* in units of 1/1000
effectiveMinOpacity(isLightBg) == IF isLightBg THEN 150 ELSE 30
effectiveMaxOpacity(isLightBg) == IF isLightBg THEN 1000 ELSE 850

\* faulty variant: the overlap does not raise the opacity
circleOpacityUnboosted(params, isLightBg, amplitude) ==
    Min(effectiveMaxOpacity(isLightBg),
        effectiveMinOpacity(isLightBg)
          + ((effectiveMaxOpacity(isLightBg) - effectiveMinOpacity(isLightBg))
                * expandedAmplitude(amplitude)) \div 50)

\* the opacity of a band's circles with the overlap boost, in units of 1/1000
circleOpacity(params, isLightBg, amplitude) ==
    Min(effectiveMaxOpacity(isLightBg),
        effectiveMinOpacity(isLightBg)
          + ((effectiveMaxOpacity(isLightBg) - effectiveMinOpacity(isLightBg))
                * expandedAmplitude(amplitude)) \div 50
          + 3 * params.overlap)

\* createRadialGradient(x, y, 0, x, y, radius) and arc(x, y, radius, ...) throw
\* for a negative radius; the radius of a circle lies between the effective
\* minimum and maximum for an amplitude in [0, 1]
drawGradientCircleThrows(params, isLightBg) ==
    \/ effectiveMinRadius(params) < 0
    \/ effectiveMaxRadius(params, isLightBg) < 0

\* isLightBg ? 'multiply' : 'screen'
blendMode(isLightBg) == IF isLightBg THEN "multiply" ELSE "screen"

\* the canvas calls of drawGradientCircle that depend on the composite operation
drawGradientCircle == << [cmd |-> "fill", what |-> "circle"] >>

\* (intensity / 100) * 0.5 and its tint opacity * 0.4, in units of 1/1000
grainOpacity(intensity) == 5 * intensity
tintOpacity(intensity) == 2 * intensity

\* faulty variant: the grain pass neither saves nor restores the context
drawCircleGrainUnsaved(loaded, intensity) ==
    IF ~loaded \/ intensity <= 0
    THEN << >>
    ELSE << [cmd |-> "set", value |-> "soft-light"],
            [cmd |-> "alpha", value |-> grainOpacity(intensity)],
            [cmd |-> "fill", what |-> "grain"],
            [cmd |-> "alpha", value |-> tintOpacity(intensity)],
            [cmd |-> "fill", what |-> "grain"] >>

\* faulty variant: the grain pass does not wait for the texture
drawCircleGrainUnloaded(loaded, intensity) ==
    IF intensity <= 0
    THEN << >>
    ELSE << [cmd |-> "save"],
            [cmd |-> "set", value |-> "soft-light"],
            [cmd |-> "alpha", value |-> grainOpacity(intensity)],
            [cmd |-> "fill", what |-> "grain"],
            [cmd |-> "alpha", value |-> tintOpacity(intensity)],
            [cmd |-> "fill", what |-> "grain"],
            [cmd |-> "restore"] >>

\* the canvas calls of drawCircleGrain
drawCircleGrain(loaded, intensity) ==
    IF ~loaded \/ intensity <= 0
    THEN << >>
    ELSE << [cmd |-> "save"],
            [cmd |-> "set", value |-> "soft-light"],
            [cmd |-> "alpha", value |-> grainOpacity(intensity)],
            [cmd |-> "fill", what |-> "grain"],
            [cmd |-> "alpha", value |-> tintOpacity(intensity)],
            [cmd |-> "fill", what |-> "grain"],
            [cmd |-> "restore"] >>

\* the calls render() makes on this.circleCtx for one band
drawBand(loaded, intensity) ==
    drawGradientCircle \o drawCircleGrain(loaded, intensity)
        \o drawGradientCircle \o drawCircleGrain(loaded, intensity)

\* a 2D context: its globalCompositeOperation and globalAlpha (in 1/1000), the
\* stack of save(), the operations its fills were made with and the alphas of
\* its grain fills
Context(operation) ==
    [op |-> operation, alpha |-> 1000, saved |-> << >>,
     circle |-> {}, grain |-> {}, image |-> {}, alphas |-> {}]

\* the effect of one canvas call; globalAlpha ignores a value outside [0, 1]
call(ctx, c) ==
    CASE c.cmd = "set"     -> [ctx EXCEPT !.op = c.value]
      [] c.cmd = "alpha"   -> IF c.value >= 0 /\ c.value <= 1000
                              THEN [ctx EXCEPT !.alpha = c.value]
                              ELSE ctx
      [] c.cmd = "save"    -> [ctx EXCEPT !.saved = <<[op |-> ctx.op, alpha |-> ctx.alpha]>>
                                                      \o ctx.saved]
      [] c.cmd = "restore" -> IF ctx.saved = << >> THEN ctx
                              ELSE [ctx EXCEPT !.op = Head(ctx.saved).op,
                                               !.alpha = Head(ctx.saved).alpha,
                                               !.saved = Tail(ctx.saved)]
      [] c.cmd = "fill"    -> [ctx EXCEPT ![c.what] = ctx[c.what] \cup {ctx.op},
                                          !.alphas = IF c.what = "grain"
                                                     THEN ctx.alphas \cup {ctx.alpha}
                                                     ELSE ctx.alphas]

\* the calls of a sequence applied in order: a run holds the context and the
\* calls still to make
RECURSIVE run(_)
run(r) ==
    IF r.cmds = << >> THEN r.ctx
    ELSE run([ctx |-> call(r.ctx, Head(r.cmds)), cmds |-> Tail(r.cmds)])

execute(ctx, cmds) == run([ctx |-> ctx, cmds |-> cmds])

\* lines 617-679 of render() on the offscreen context
circleCalls(isLightBg, loaded, intensity) ==
    << [cmd |-> "set", value |-> blendMode(isLightBg)] >>
        \o drawBand(loaded, intensity) \o drawBand(loaded, intensity)
        \o drawBand(loaded, intensity)
        \o << [cmd |-> "set", value |-> "source-over"] >>

\* lines 682-684 of render() on the main context
mainCalls(isLightBg) ==
    << [cmd |-> "set", value |-> blendMode(isLightBg)],
       [cmd |-> "fill", what |-> "image"],
       [cmd |-> "set", value |-> "source-over"] >>

\* the canvas after render(): an exception of the first drawGradientCircle
\* leaves the offscreen context at the blend mode and the main context alone
paint(cv, isLightBg, loaded, intensity, throws) ==
    IF throws
    THEN [ctx       |-> Context(cv.ctx.op),
          circleCtx |-> Context(blendMode(isLightBg))]
    ELSE [ctx       |-> execute(Context(cv.ctx.op), mainCalls(isLightBg)),
          circleCtx |-> execute(Context(cv.circleCtx.op),
                                circleCalls(isLightBg, loaded, intensity))]

\* faulty variant: the elapsed time is not capped
frameDeltaTimeUncapped(t, last) == t - last

\* Math.min((now - this.lastFrameTime) / 1000, 0.1)
frameDeltaTime(t, last) == Min(t - last, MaxDeltaTime)

\* analyze() was not called; analyze() returned undefined
NotCalled == [called |-> FALSE]
Undefined == [called |-> TRUE]

\* faulty variant: a missing result counts as full scale
rawFromAnalysisFull(analysis) ==
    IF analysis \in {NotCalled, Undefined} THEN [r \in Ranges |-> AmpUnit] ELSE analysis

\* this.audioAnalyzer.analyze() || rawAmplitudes
rawFromAnalysis(analysis) ==
    IF analysis \in {NotCalled, Undefined} THEN Silent ELSE analysis

\* frames painted in a run: more when the application drives the visualizer
\* the clock has reached its bound and the offsets are on their way back to
\* the anchors
settling ==
    /\ now = MaxTime
    /\ controlParams.drift = 0
    /\ \E b \in Bands : driftOffsets[b] # Zero2

frameLimit ==
    IF app.constructed THEN MaxHostFrames
    ELSE IF settling THEN MaxSettleFrames
    ELSE MaxFrames

\* render() throws before it returns
renderThrows ==
    drawGradientCircleThrows(controlParams, getBackgroundLightness(colors) > 5000)

\* render(): analysis is what audioAnalyzer.analyze() returns in this frame,
\* rnd the values Math.random() returns
render(analysis, rnd) ==
    LET deltaTime == frameDeltaTime(now, lastFrameTime)
        rawAmplitudes == rawFromAnalysis(analysis)
        emphasizedAmplitudes ==
            [r \in Ranges |-> applyEmphasis(rawAmplitudes[r], controlParams[EmphasisKey(r)])]
        smoothed == smoothAmplitudes(controlParams, smoothedAmplitudes,
                                     emphasizedAmplitudes, deltaTime)
        finalAmplitudes ==
            [b \in Bands |-> applyCompression(smoothed[b], controlParams.compression)]
        drift == updateDriftOffsets(controlParams, driftOffsets, driftVelocities,
                                    deltaTime, rnd)
        isLightBg == getBackgroundLightness(colors) > 5000
    IN  /\ frame.n < frameLimit
        /\ lastFrameTime' = now
        /\ smoothedAmplitudes' = smoothed
        /\ driftOffsets' = drift.offsets
        /\ driftVelocities' = drift.velocities
        /\ canvas' = paint(canvas, isLightBg, grainImageLoaded, controlParams.grain,
                           renderThrows)
        /\ frame' = [n         |-> frame.n + 1,
                     elapsed   |-> now - lastFrameTime,
                     deltaTime |-> deltaTime,
                     analysis  |-> analysis,
                     raw       |-> rawAmplitudes,
                     targets   |-> bandTargets(emphasizedAmplitudes),
                     previous  |-> smoothedAmplitudes,
                     speeds    |-> [b \in Bands |->
                                       effectiveSpeed(controlParams, smoothedAmplitudes[b],
                                                      bandTargets(emphasizedAmplitudes)[b])],
                     final     |-> finalAmplitudes,
                     radius    |-> [b \in Bands |->
                                       circleRadius(controlParams, isLightBg,
                                                    finalAmplitudes[b])],
                     opacity   |-> [b \in Bands |->
                                       circleOpacity(controlParams, isLightBg,
                                                     finalAmplitudes[b])],
                     centres   |-> [b \in Bands |->
                                       calculateCirclePositions(emphasisPositions, b)],
                     isLightBg  |-> isLightBg,
                     multiplier |-> fieldScaleMultiplier(controlParams),
                     colors     |-> bandColors(controlColors),
                     returned   |-> ~renderThrows]

\* what analyze() can return: it is called only when an analyzer is connected,
\* and returns undefined until the analyzer is initialized
analyses ==
    IF ~audioAnalyzer THEN {NotCalled}
    ELSE IF ~analyzerReady THEN {Undefined}
    ELSE IF app.constructed THEN HostResults ELSE AnalyzerResults

\* what Math.random() can return: it is called only when drift is not 0
draws ==
    IF controlParams.drift = 0 THEN {[b \in Bands |-> Zero2]}
    ELSE IF app.constructed THEN HostDraws ELSE RandomDraws

renderFrame ==
    \E analysis \in analyses, rnd \in draws : render(analysis, rnd)

renderState == <<lastFrameTime, smoothedAmplitudes, driftOffsets, driftVelocities, frame,
                 canvas>>
variant5 == <<smoothed5, frame5, drift5>>
\* what only the setters write
hostSide == <<arg, controlColors, colors, analyzerReady, grainImageLoaded, app, analyzer>>

(***************************************************************************)
(* Lifecycle.                                                              *)
(***************************************************************************)
\* requestAnimationFrame(animate)
schedule ==
    /\ animationId' = nextHandle
    /\ pending' = pending \cup {nextHandle}
    /\ nextHandle' = nextHandle + 1

\* faulty variant: start() does not test isRunning
startGuardMissing == FALSE

startGuard == isRunning

\* the body of start(): an exception of render() leaves animate() before
\* requestAnimationFrame
startLoop ==
    IF startGuard
    THEN UNCHANGED <<isRunning, animationId, pending, nextHandle, renderState>>
    ELSE /\ isRunning' = TRUE
         /\ renderFrame
         /\ IF renderThrows
            THEN UNCHANGED <<animationId, pending, nextHandle>>
            ELSE schedule

Start ==
    /\ op' = "start"
    /\ startLoop
    /\ UNCHANGED <<now, audioAnalyzer, controlParams, emphasisPositions, variant5>>
    /\ UNCHANGED hostSide

\* the browser runs a pending frame callback (animate)
FrameTick ==
    /\ \E id \in pending :
          IF ~isRunning
          THEN /\ pending' = pending \ {id}
               /\ UNCHANGED <<animationId, nextHandle, renderState>>
          ELSE /\ renderFrame
               /\ IF renderThrows
                  THEN /\ pending' = pending \ {id}
                       /\ UNCHANGED <<animationId, nextHandle>>
                  ELSE /\ animationId' = nextHandle
                       /\ pending' = (pending \ {id}) \cup {nextHandle}
                       /\ nextHandle' = nextHandle + 1
    /\ op' = "tick"
    /\ UNCHANGED <<isRunning, now, audioAnalyzer, controlParams, emphasisPositions, variant5>>
    /\ UNCHANGED hostSide

\* faulty variant: stop() does not cancel the frame callback
cancelledNothing == pending

\* cancelAnimationFrame(this.animationId)
cancelled == pending \ {animationId}

\* the body of stop()
stopLoop ==
    /\ isRunning' = FALSE
    /\ IF animationId # Null
       THEN /\ pending' = cancelled
            /\ animationId' = Null
       ELSE UNCHANGED <<pending, animationId>>

Stop ==
    /\ op' = "stop"
    /\ stopLoop
    /\ UNCHANGED <<nextHandle, now, audioAnalyzer, controlParams, emphasisPositions,
                   renderState, variant5>>
    /\ UNCHANGED hostSide

\* faulty variant: renderStatic() starts the loop
RenderStaticStartsLoop ==
    /\ op' = "renderStatic"
    /\ isRunning' = TRUE
    /\ renderFrame
    /\ schedule
    /\ UNCHANGED <<now, audioAnalyzer, controlParams, emphasisPositions, variant5>>
    /\ UNCHANGED hostSide

RenderStatic ==
    /\ op' = "renderStatic"
    /\ renderFrame
    /\ UNCHANGED <<isRunning, animationId, pending, nextHandle, now, audioAnalyzer,
                   controlParams, emphasisPositions, variant5>>
    /\ UNCHANGED hostSide

\* time passes
advance(steps) ==
    /\ \E d \in steps : now + d <= MaxTime /\ now' = now + d
    /\ op' = "advance"
    /\ UNCHANGED <<isRunning, animationId, pending, nextHandle, audioAnalyzer,
                   controlParams, emphasisPositions, renderState, variant5>>
    /\ UNCHANGED hostSide

AdvanceTime == advance(Advances)

(***************************************************************************)
(* Setters.                                                                *)
(***************************************************************************)
ParamKeys == {"attack", "decay", "inertia", "drift", "fieldScale", "overlap", "anchor",
              "lowEmphasis", "midEmphasis", "highEmphasis", "compression", "grain"}

\* faulty variant: the argument replaces the stored object
mergeReplaces(old, params) == params

\* { ...old, ...params }
merge(old, params) ==
    [k \in DOMAIN old \cup DOMAIN params |->
        IF k \in DOMAIN params THEN params[k] ELSE old[k]]

\* what a setter leaves alone besides the objects of the setters
setterFrame == <<isRunning, animationId, pending, nextHandle, now, audioAnalyzer,
                 renderState, variant5, analyzerReady, grainImageLoaded, app, analyzer>>

setControlParams(params) ==
    /\ controlParams' = merge(controlParams, params)
    /\ op' = "setControlParams"
    /\ arg' = params
    /\ UNCHANGED <<setterFrame, emphasisPositions, controlColors, colors>>

setControlColors(newColors) ==
    /\ controlColors' = merge(controlColors, newColors)
    /\ op' = "setControlColors"
    /\ arg' = newColors
    /\ UNCHANGED <<setterFrame, controlParams, emphasisPositions, colors>>

setEmphasisPositions(positions) ==
    /\ emphasisPositions' = merge(emphasisPositions, positions)
    /\ op' = "setEmphasisPositions"
    /\ arg' = positions
    /\ UNCHANGED <<setterFrame, controlParams, controlColors, colors>>

\* this.colors[range] = color
setColor(range, color) ==
    /\ colors' = [k \in DOMAIN colors \cup {range} |-> IF k = range THEN color ELSE colors[k]]
    /\ op' = "setColor"
    /\ arg' = <<range, color>>
    /\ UNCHANGED <<setterFrame, controlParams, emphasisPositions, controlColors>>

\* connectAnalyzer(analyzer); ready tells whether analyzer.init() has completed
connect(ready) ==
    /\ audioAnalyzer' = TRUE
    /\ analyzerReady' = ready
    /\ op' = "connectAnalyzer"
    /\ UNCHANGED <<isRunning, animationId, pending, nextHandle, now, controlParams,
                   emphasisPositions, renderState, variant5>>
    /\ UNCHANGED <<arg, controlColors, colors, grainImageLoaded, app, analyzer>>

\* the host connects an initialized analyzer
connectAnalyzer == connect(TRUE)

(***************************************************************************)
(* Construction.                                                           *)
(***************************************************************************)
NoArg == <<>>

DefaultControlColors ==
    [lowEmphasis  |-> Hex("e", "9", "4", "5", "6", "0"),
     midEmphasis  |-> Hex("f", "e", "c", "a", "5", "7"),
     highEmphasis |-> Hex("f", "f", "9", "f", "f", "3")]

DefaultColors ==
    [background |-> Hex("1", "a", "1", "a", "2", "e"),
     bass       |-> Hex("e", "9", "4", "5", "6", "0"),
     lowerMid   |-> Hex("f", "f", "6", "b", "6", "b"),
     mid        |-> Hex("f", "e", "c", "a", "5", "7"),
     upperMid   |-> Hex("4", "8", "d", "b", "f", "b"),
     treble     |-> Hex("f", "f", "9", "f", "f", "3")]

DefaultParams ==
    [attack |-> 0, decay |-> 0, inertia |-> 0, drift |-> 0,
     fieldScale |-> 0, overlap |-> 0, anchor |-> 0,
     lowEmphasis |-> 50, midEmphasis |-> 50, highEmphasis |-> 50,
     compression |-> 0, grain |-> 0]

NoFrame ==
    [n |-> 0, elapsed |-> 0, deltaTime |-> 0, raw |-> Silent,
     targets |-> [b \in Bands |-> 0], previous |-> [b \in Bands |-> 0],
     speeds |-> [b \in Bands |-> 0],
     final |-> [b \in Bands |-> 0],
     radius |-> [b \in Bands |-> 0], opacity |-> [b \in Bands |-> 0],
     centres |-> [b \in Bands |-> [left |-> Zero2, right |-> Zero2]],
     isLightBg |-> FALSE, multiplier |-> 0, colors |-> [b \in Bands |-> <<>>],
     analysis |-> NotCalled, returned |-> TRUE]

\* both contexts are created with globalCompositeOperation 'source-over'
NewCanvas == [ctx |-> Context("source-over"), circleCtx |-> Context("source-over")]

\* no application object: the visualizer is driven directly
NoApp == [constructed |-> FALSE]

\* the analyzer is not looked into
NoAnalyzer == [isInitialized |-> FALSE]

\* the 5-band variant is not constructed
NoDrift5 == [constructed |-> FALSE]

NoFrame5 ==
    [n |-> 0, emphasized |-> Silent, targets |-> Silent, final |-> Silent]

Init ==
    /\ isRunning = FALSE
    /\ animationId = Null
    /\ pending = {}
    /\ nextHandle = 1
    /\ now = 0
    /\ lastFrameTime = 0
    /\ audioAnalyzer = FALSE
    /\ controlParams = DefaultParams
    /\ smoothedAmplitudes = [b \in Bands |-> 0]
    /\ driftOffsets = [b \in Bands |-> Zero2]
    /\ driftVelocities \in { [b \in Bands |-> [x |-> 2500 * r[b].x, y |-> 2500 * r[b].y]] :
                               r \in InitialDraws }
    /\ emphasisPositions = [b \in Bands |-> [x |-> 50, y |-> 50]]
    /\ frame = NoFrame
    /\ smoothed5 = Silent
    /\ frame5 = NoFrame5
    /\ op = "new"
    /\ arg = NoArg
    /\ controlColors = DefaultControlColors
    /\ colors = DefaultColors
    /\ analyzerReady = FALSE
    /\ grainImageLoaded = FALSE
    /\ canvas = NewCanvas
    /\ app = NoApp
    /\ analyzer = NoAnalyzer
    /\ drift5 = NoDrift5

(***************************************************************************)
(* The lifecycle of the loop, with the parameters of the constructor.      *)
(***************************************************************************)
Next == Start \/ FrameTick \/ Stop \/ RenderStatic \/ AdvanceTime

Spec == Init /\ [][Next]_vars

(***************************************************************************)
(* The amplitude pipeline: an analyzer is connected, the host moves the    *)
(* sliders of the shaping and smoothing parameters and paints frames at    *)
(* display rate.                                                           *)
(***************************************************************************)
shaping(attack, decay, inertia, lowEmphasis, compression) ==
    [attack |-> attack, decay |-> decay, inertia |-> inertia,
     lowEmphasis |-> lowEmphasis, compression |-> compression]

\* slider settings the host passes to setControlParams
ShapingSettings ==
    { shaping(0, 0, 0, 50, 0),
      shaping(100, 0, 0, 50, 0),
      shaping(100, 100, 100, 50, 0),
      shaping(0, 0, 0, 100, 100),
      shaping(50, 50, 50, 0, 50) }

SetShaping == \E params \in ShapingSettings : setControlParams(params)

\* the display's frame interval passes after a frame was painted
FramePasses == now = lastFrameTime /\ advance(FrameAdvances)

NextAmp == FramePasses \/ SetShaping \/ connectAnalyzer \/ RenderStatic

SpecAmp == Init /\ [][NextAmp]_vars

(***************************************************************************)
(* The shaping functions on their own: applyEmphasis and applyCompression  *)
(* are applied to amplitudes in [0, 1] and slider values in [0, 100].      *)
(***************************************************************************)
Amplitudes ==
    {0, AmpUnit \div 1000, AmpUnit \div 4, Half, 6 * (AmpUnit \div 10),
     3 * (AmpUnit \div 4), AmpUnit}

SliderValues == {0, 1, 10, 25, 49, 50, 51, 75, 90, 99, 100}

applied(name, amplitude, value, result) ==
    /\ op' = name
    /\ arg' = [amplitude |-> amplitude, value |-> value, result |-> result]
    /\ UNCHANGED <<setterFrame, controlParams, emphasisPositions, controlColors, colors>>

ApplyEmphasis ==
    \E a \in Amplitudes, e \in SliderValues :
        applied("applyEmphasis", a, e, applyEmphasis(a, e))

ApplyCompression ==
    \E a \in Amplitudes, c \in SliderValues :
        applied("applyCompression", a, c, applyCompression(a, c))

NextShape == ApplyEmphasis \/ ApplyCompression

SpecShape == Init /\ [][NextShape]_vars

(***************************************************************************)
(* The drift engine: the host moves the drift and anchor sliders between   *)
(* frames; frames come at display rate or after a stall.                   *)
(***************************************************************************)
placement(drift, anchor) == [drift |-> drift, anchor |-> anchor]

\* slider settings the host passes to setControlParams
DriftSettings ==
    { placement(100, 0), placement(50, 50), placement(1, 100), placement(0, 0) }

SetDrift == \E params \in DriftSettings : setControlParams(params)

\* a frame interval or a stall passes after a frame was painted
FrameOrStall == now = lastFrameTime /\ advance(Advances)

NextDrift == FrameOrStall \/ SetDrift \/ RenderStatic

SpecDrift == Init /\ [][NextDrift]_vars

(***************************************************************************)
(* Settling: the visualizer has run up to the end of the clock with the    *)
(* circles adrift, the host has set drift to 0, and static frames are      *)
(* painted; the host may move the sliders again.                           *)
(***************************************************************************)
\* offsets the drift engine can have produced, in 1/10 px
StartOffsets ==
    { [low  |-> [x |-> 9000, y |-> -4],
       mid  |-> [x |-> -6300, y |-> 6300],
       high |-> [x |-> 11, y |-> -10]],
      [low  |-> [x |-> 0, y |-> -9000],
       mid  |-> [x |-> 12, y |-> 0],
       high |-> [x |-> -117, y |-> 118]] }

InitSettle ==
    /\ isRunning = FALSE
    /\ animationId = Null
    /\ pending = {}
    /\ nextHandle = 1
    /\ now = MaxTime
    /\ lastFrameTime = MaxTime
    /\ audioAnalyzer = FALSE
    /\ controlParams = merge(DefaultParams, placement(0, 0))
    /\ smoothedAmplitudes = [b \in Bands |-> 0]
    /\ driftOffsets \in StartOffsets
    /\ driftVelocities \in { [b \in Bands |-> [x |-> 2500 * r[b].x, y |-> 2500 * r[b].y]] :
                               r \in InitialDraws }
    /\ emphasisPositions = [b \in Bands |-> [x |-> 50, y |-> 50]]
    /\ frame = NoFrame
    /\ smoothed5 = Silent
    /\ frame5 = NoFrame5
    /\ op = "setControlParams"
    /\ arg = placement(0, 0)
    /\ controlColors = DefaultControlColors
    /\ colors = DefaultColors
    /\ analyzerReady = FALSE
    /\ grainImageLoaded = FALSE
    /\ canvas = NewCanvas
    /\ app = NoApp
    /\ analyzer = NoAnalyzer
    /\ drift5 = NoDrift5

NextSettle == SetDrift \/ RenderStatic

\* the host keeps calling renderStatic: weak fairness of RenderStatic, written
\* out as "infinitely often disabled or infinitely often taken"; RenderStatic
\* is enabled exactly when the guard of render() holds
SpecSettle ==
    /\ InitSettle
    /\ [][NextSettle]_vars
    /\ ([]<>(frame.n >= frameLimit) \/ []<><<RenderStatic>>_vars)

(***************************************************************************)
(* The render pipeline of the 5-band variant (the second class Visualizer  *)
(* of the file), constructed with its own defaults.  Its amplitudes do not *)
(* depend on the positions updateDriftPositions moves.                     *)
(***************************************************************************)
DefaultParams5 ==
    [attack |-> 50, decay |-> 50, inertia |-> 50, drift |-> 50,
     fieldScale |-> 50, overlap |-> 50, anchor |-> 50,
     lowEmphasis |-> 50, midEmphasis |-> 50, highEmphasis |-> 50,
     compression |-> 50]

DefaultControlColors5 ==
    [attack       |-> Hex("4", "8", "d", "b", "f", "b"),
     decay        |-> Hex("f", "e", "c", "a", "5", "7"),
     inertia      |-> Hex("f", "f", "6", "b", "6", "b"),
     drift        |-> Hex("f", "f", "9", "f", "f", "3"),
     fieldScale   |-> Hex("e", "9", "4", "5", "6", "0"),
     overlap      |-> Hex("f", "e", "c", "a", "5", "7"),
     anchor       |-> Hex("f", "f", "6", "b", "6", "b"),
     lowEmphasis  |-> Hex("e", "9", "4", "5", "6", "0"),
     midEmphasis  |-> Hex("f", "e", "c", "a", "5", "7"),
     highEmphasis |-> Hex("f", "f", "9", "f", "f", "3"),
     compression  |-> Hex("4", "8", "d", "b", "f", "b")]

\* a coordinate of the 5-band variant: a number in units of 1/10 px, or NaN
Num(n) == [nan |-> FALSE, v |-> n]
NaN == [nan |-> TRUE, v |-> 0]

\* Math.max(padding, Math.min(size - padding, value)) with padding = 50 px
clampToCanvas(value, size) == Max(500, Min(size - 500, value))

\* the draws of updateDriftPositions in one frame, as 4 * (Math.random() - 0.5)
Draws5 == { [r \in Ranges |-> IF r = "bass" THEN [x |-> -2, y |-> 1] ELSE [x |-> 1, y |-> 1]] }

\* velocity += (Math.random() - 0.5) * 0.5 * deltaTime, then the clamp of its
\* magnitude to 1; velocities are in units of 1/10000
velocity5(velocity, deltaTime, rnd) ==
    LET v == [x |-> velocity.x + MulDiv(25 * rnd.x, deltaTime, 12),
              y |-> velocity.y + MulDiv(25 * rnd.y, deltaTime, 12)]
    IN  IF Norm2(v) > 10000 * 10000
        THEN scale2(v, 10000, CeilSqrt(Norm2(v)))
        ELSE v

\* one coordinate after the pull toward the anchor and the clamp to the canvas
\* when maxDriftDistance = 0: distance / maxDriftDistance is NaN for distance 0
\* and Infinity otherwise; d is the distance to the anchor on this axis, other
\* the one on the other axis
pulledUnbounded(anchorParam, d, other, deltaTime, size) ==
    IF d = 0 /\ other = 0 THEN NaN
    ELSE IF anchorParam = 100 THEN NaN
    ELSE IF d = 0 \/ deltaTime = 0 THEN NaN
    ELSE IF d > 0 THEN Num(size - 500)
    ELSE Num(500)

\* updateDriftPositions for one range
driftOne5(params, anchor, position, velocity, deltaTime, rnd) ==
    LET v == velocity5(velocity, deltaTime, rnd)
        maxDriftDistance == 20 * params.drift
        x1 == position.x.v + MulDiv(v.x * params.drift, deltaTime, 1200000)
        y1 == position.y.v + MulDiv(v.y * params.drift, deltaTime, 1200000)
        dx == anchor.x - x1
        dy == anchor.y - y1
        squared == dx * dx + dy * dy
        distance == FloorSqrt(squared)
        pullStrength == 200 * params.anchor
                          + (MulDivN(distance, 10000, Max(maxDriftDistance, 1))
                               * (100 - params.anchor)) \div 100
        step == MulDivN(pullStrength, deltaTime, 600)
        x2 == x1 + MulDiv(dx, step, 10000)
        y2 == y1 + MulDiv(dy, step, 10000)
        limited == squared > maxDriftDistance * maxDriftDistance
        x3 == IF limited
              THEN anchor.x + MulDiv(x2 - anchor.x, maxDriftDistance, CeilSqrt(squared))
              ELSE x2
        y3 == IF limited
              THEN anchor.y + MulDiv(y2 - anchor.y, maxDriftDistance, CeilSqrt(squared))
              ELSE y2
    IN  [velocity |-> v,
         position |->
            IF position.x.nan \/ position.y.nan THEN [x |-> NaN, y |-> NaN]
            ELSE IF maxDriftDistance = 0
            THEN [x |-> pulledUnbounded(params.anchor, dx, dy, deltaTime, CanvasWidth),
                  y |-> pulledUnbounded(params.anchor, dy, dx, deltaTime, CanvasHeight)]
            ELSE [x |-> Num(clampToCanvas(x3, CanvasWidth)),
                  y |-> Num(clampToCanvas(y3, CanvasHeight))]]

updateDriftPositions(params, state, deltaTime, rnd) ==
    [state EXCEPT
        !.positions = [r \in Ranges |->
            driftOne5(params, state.anchors[r], state.positions[r], state.velocities[r],
                      deltaTime, rnd[r]).position],
        !.velocities = [r \in Ranges |->
            driftOne5(params, state.anchors[r], state.positions[r], state.velocities[r],
                      deltaTime, rnd[r]).velocity]]

\* generateRandomPositions(): anchors inside the canvas with a padding of 150 px,
\* the drift positions on the anchors, velocities (Math.random() - 0.5) * 2
Anchors5 ==
    [bass     |-> [x |-> 3000, y |-> 2000],
     lowerMid |-> [x |-> 9000, y |-> 2000],
     mid      |-> [x |-> 6000, y |-> 4000],
     upperMid |-> [x |-> 1500, y |-> 6500],
     treble   |-> [x |-> 10500, y |-> 6500]]

NewDrift5 ==
    [constructed |-> TRUE,
     anchors     |-> Anchors5,
     positions   |-> [r \in Ranges |-> [x |-> Num(Anchors5[r].x), y |-> Num(Anchors5[r].y)]],
     velocities  |-> [r \in Ranges |->
                        IF r \in {"bass", "mid"} THEN [x |-> -10000, y |-> 5000]
                        ELSE [x |-> 5000, y |-> 5000]]]

smoothAmplitudes5(params, state, rawAmplitudes, deltaTime) ==
    [r \in Ranges |-> smoothOne(params, state[r], rawAmplitudes[r], deltaTime)]

render5(analysis, rnd) ==
    LET deltaTime == frameDeltaTime(now, lastFrameTime)
        rawAmplitudes == IF audioAnalyzer THEN analysis ELSE Silent
        emphasizedAmplitudes ==
            [r \in Ranges |-> applyEmphasis(rawAmplitudes[r], controlParams[EmphasisKey(r)])]
        compressedAmplitudes ==
            [r \in Ranges |->
                applyCompression(emphasizedAmplitudes[r], controlParams.compression)]
    IN  /\ frame5.n < MaxFrames
        /\ lastFrameTime' = now
        /\ smoothed5' = smoothAmplitudes5(controlParams, smoothed5,
                                          compressedAmplitudes, deltaTime)
        /\ drift5' = updateDriftPositions(controlParams, drift5, deltaTime, rnd)
        /\ frame5' = [n          |-> frame5.n + 1,
                      emphasized |-> emphasizedAmplitudes,
                      targets    |-> compressedAmplitudes,
                      final      |-> smoothed5']

RenderStatic5 ==
    /\ op' = "renderStatic"
    /\ \E analysis \in (IF audioAnalyzer THEN AnalyzerResults ELSE {Silent}),
          rnd \in Draws5 :
          render5(analysis, rnd)
    /\ UNCHANGED <<isRunning, animationId, pending, nextHandle, now, audioAnalyzer,
                   controlParams, smoothedAmplitudes, driftOffsets, driftVelocities,
                   emphasisPositions, frame, canvas>>
    /\ UNCHANGED hostSide

Init5 ==
    /\ isRunning = FALSE
    /\ animationId = Null
    /\ pending = {}
    /\ nextHandle = 1
    /\ now = 0
    /\ lastFrameTime = 0
    /\ audioAnalyzer = FALSE
    /\ controlParams = DefaultParams5
    /\ smoothedAmplitudes = [b \in Bands |-> 0]
    /\ driftOffsets = [b \in Bands |-> Zero2]
    /\ driftVelocities = [b \in Bands |-> Zero2]
    /\ emphasisPositions = [b \in Bands |-> [x |-> 50, y |-> 50]]
    /\ frame = NoFrame
    /\ smoothed5 = Silent
    /\ frame5 = NoFrame5
    /\ op = "new"
    /\ arg = NoArg
    /\ controlColors = DefaultControlColors5
    /\ colors = DefaultColors
    /\ analyzerReady = FALSE
    /\ grainImageLoaded = FALSE
    /\ canvas = NewCanvas
    /\ app = NoApp
    /\ analyzer = NoAnalyzer
    /\ drift5 = NewDrift5

Next5 == FramePasses \/ SetShaping \/ connectAnalyzer \/ RenderStatic5

Spec5 == Init5 /\ [][Next5]_vars

(***************************************************************************)
(* The drift of the 5-band variant: the host moves the drift and anchor    *)
(* sliders between frames; frames come at display rate or after a stall.   *)
(***************************************************************************)
NextDrift5 == FrameOrStall \/ SetDrift \/ RenderStatic5

SpecDrift5 == Init5 /\ [][NextDrift5]_vars

(***************************************************************************)
(* The setters: the host changes sliders, colour pickers and position      *)
(* sliders between static frames.                                          *)
(***************************************************************************)
\* partial maps passed to setControlParams
ParamArgs ==
    { [fieldScale |-> 100],
      [compression |-> 100, grain |-> 50] }

\* partial maps passed to setControlColors
White == Hex("f", "f", "f", "f", "f", "f")

\* a colour typed without # and in capitals; a colour with a digit missing
Typed == <<"F", "F", "E", "E", "D", "D">>
Malformed == <<"#", "e", "9", "4", "5", "6">>

ColorArgs ==
    { [lowEmphasis |-> White],
      [midEmphasis |-> Typed, highEmphasis |-> Malformed] }

\* partial maps passed to setEmphasisPositions
PositionArgs ==
    { [low |-> [x |-> 0, y |-> 100]] }

SetParams == \E params \in ParamArgs : setControlParams(params)
SetColors == \E newColors \in ColorArgs : setControlColors(newColors)
SetPositions == \E positions \in PositionArgs : setEmphasisPositions(positions)
SetColor == \E color \in {White, Malformed} : setColor("background", color)

\* one frame interval passes after a frame was painted
FrameInterval == now = lastFrameTime /\ advance({FrameTicks})

NextSet == SetParams \/ SetColors \/ SetPositions \/ SetColor \/ FrameInterval \/ RenderStatic

SpecSet == Init /\ [][NextSet]_vars

(***************************************************************************)
(* The simulation state: the host starts and stops the loop, calls every   *)
(* setter, connects an analyzer and the window is resized, between frames. *)
(***************************************************************************)
\* faulty variant: resizing starts the smoothing and the drift afresh
ResizeCanvasResets ==
    /\ canvas' = NewCanvas
    /\ smoothedAmplitudes' = [b \in Bands |-> 0]
    /\ driftOffsets' = [b \in Bands |-> Zero2]
    /\ op' = "resizeCanvas"
    /\ UNCHANGED <<isRunning, animationId, pending, nextHandle, now, audioAnalyzer,
                   controlParams, emphasisPositions, lastFrameTime, driftVelocities,
                   frame, variant5>>
    /\ UNCHANGED hostSide

\* resizeCanvas() with the window at its size: assigning width and height
\* clears both canvases and resets their context state
ResizeCanvas ==
    /\ canvas' = NewCanvas
    /\ op' = "resizeCanvas"
    /\ UNCHANGED <<isRunning, animationId, pending, nextHandle, now, audioAnalyzer,
                   controlParams, emphasisPositions, lastFrameTime, smoothedAmplitudes,
                   driftOffsets, driftVelocities, frame, variant5>>
    /\ UNCHANGED hostSide

NextSim ==
    \/ Start \/ Stop \/ FrameTick \/ FrameInterval
    \/ setControlParams(placement(100, 0))
    \/ setControlColors([lowEmphasis |-> DefaultControlColors.lowEmphasis])
    \/ setEmphasisPositions([low |-> [x |-> 50, y |-> 50]])
    \/ setColor("background", DefaultColors.background)
    \/ connectAnalyzer
    \/ ResizeCanvas

SpecSim == Init /\ [][NextSim]_vars

(***************************************************************************)
(* Placement: the host moves the X/Y handles of the bands and paints       *)
(* static frames.                                                          *)
(***************************************************************************)
MovePosition ==
    \E b \in Bands,
       pos \in {[x |-> 0, y |-> 33], [x |-> 100, y |-> 0], [x |-> 37, y |-> 100]} :
        setEmphasisPositions([k \in {b} |-> pos])

NextPlace == MovePosition \/ RenderStatic

SpecPlace == Init /\ [][NextPlace]_vars

(***************************************************************************)
(* The analyzer (class AudioAnalyzer): the analyser node fills dataArray   *)
(* with one byte per frequency bin; a band's amplitude is computed from    *)
(* the bins of its frequency range.  An amplitude is kept as the fraction  *)
(* num / den.                                                              *)
(***************************************************************************)
\* analyser.frequencyBinCount for fftSize = 2048
BufferLength == 1024

\* this.frequencyRanges
frequencyRanges ==
    [bass     |-> [min |-> 20,   max |-> 150],
     lowerMid |-> [min |-> 150,  max |-> 500],
     mid      |-> [min |-> 500,  max |-> 1000],
     upperMid |-> [min |-> 1000, max |-> 4000],
     treble   |-> [min |-> 4000, max |-> 20000]]

\* Math.floor(frequency / binWidth), binWidth = (sampleRate / 2) / bufferLength
frequencyToBin(sampleRate, frequency) == (frequency * 2 * BufferLength) \div sampleRate

\* the sum of dataArray[i] for first <= i <= last
RECURSIVE sumBins(_, _, _)
sumBins(dataArray, first, last) ==
    IF first > last THEN 0
    ELSE IF first = last THEN dataArray[first]
    ELSE LET middle == (first + last) \div 2
         IN  sumBins(dataArray, first, middle) + sumBins(dataArray, middle + 1, last)

\* the last bin of the loop `for (i = minBin; i <= maxBin; i++)`
lastBin(maxBin) == maxBin

\* getAverageAmplitude(minFreq, maxFreq): (sum / count) / 255, or 0
getAverageAmplitude(sampleRate, dataArray, minFreq, maxFreq) ==
    LET minBin == frequencyToBin(sampleRate, minFreq)
        maxBin == Min(frequencyToBin(sampleRate, maxFreq), BufferLength - 1)
        count  == lastBin(maxBin) - minBin + 1
    IN  IF minBin >= maxBin THEN [num |-> 0, den |-> 1]
        ELSE IF count > 0
             THEN [num |-> sumBins(dataArray, minBin, lastBin(maxBin)), den |-> count * 255]
             ELSE [num |-> 0, den |-> 1]

\* sample rates of the audio context
SampleRates == {8000, 44100, 48000}

\* spectra getByteFrequencyData can deliver: one bin at full scale, or a ramp
Spike(k) == [i \in 0..(BufferLength - 1) |-> IF i = k THEN 255 ELSE 0]
Spectra ==
    { Spike(k) : k \in {0, 5, 6, 7, 21, 23, 46, 170, 185, 928, 1023} }
        \cup { [i \in 0..(BufferLength - 1) |-> i % 256] }

\* frequency ranges asked for: the five bands and ranges inside one bin
Queries ==
    { frequencyRanges[r] : r \in Ranges }
        \cup { [min |-> 100, max |-> 110], [min |-> 130, max |-> 150] }

analyzerFrame == <<isRunning, animationId, pending, nextHandle, now, audioAnalyzer,
                   controlParams, emphasisPositions, renderState, variant5, arg,
                   controlColors, colors, analyzerReady, grainImageLoaded, app>>

\* analyze(): the analyser node delivers a spectrum, the five amplitudes are
\* computed from it
analyze(spectrum) ==
    /\ analyzer.isInitialized
    /\ analyzer' = [analyzer EXCEPT
           !.dataArray = spectrum,
           !.amplitudes = [r \in Ranges |->
               getAverageAmplitude(analyzer.sampleRate, spectrum,
                                   frequencyRanges[r].min, frequencyRanges[r].max)]]
    /\ op' = "analyze"
    /\ UNCHANGED analyzerFrame

\* getAverageAmplitude called for a range of its own
query(range) ==
    /\ analyzer.isInitialized
    /\ analyzer' = [analyzer EXCEPT
           !.range = range,
           !.amplitude = getAverageAmplitude(analyzer.sampleRate, analyzer.dataArray,
                                             range.min, range.max)]
    /\ op' = "getAverageAmplitude"
    /\ UNCHANGED analyzerFrame

\* the analyzer after init()
NewAnalyzer(rate) ==
    [isInitialized |-> TRUE, sampleRate |-> rate,
     dataArray |-> [i \in 0..(BufferLength - 1) |-> 0],
     amplitudes |-> [r \in Ranges |-> [num |-> 0, den |-> 1]],
     range |-> [min |-> 0, max |-> 0],
     amplitude |-> [num |-> 0, den |-> 1]]

InitAnalyzer ==
    /\ isRunning = FALSE
    /\ animationId = Null
    /\ pending = {}
    /\ nextHandle = 1
    /\ now = 0
    /\ lastFrameTime = 0
    /\ audioAnalyzer = FALSE
    /\ controlParams = DefaultParams
    /\ smoothedAmplitudes = [b \in Bands |-> 0]
    /\ driftOffsets = [b \in Bands |-> Zero2]
    /\ driftVelocities = [b \in Bands |-> Zero2]
    /\ emphasisPositions = [b \in Bands |-> [x |-> 50, y |-> 50]]
    /\ frame = NoFrame
    /\ smoothed5 = Silent
    /\ frame5 = NoFrame5
    /\ op = "new"
    /\ arg = NoArg
    /\ controlColors = DefaultControlColors
    /\ colors = DefaultColors
    /\ analyzerReady = FALSE
    /\ grainImageLoaded = FALSE
    /\ canvas = NewCanvas
    /\ app = NoApp
    /\ analyzer \in { NewAnalyzer(rate) : rate \in SampleRates }
    /\ drift5 = NoDrift5

Analyze == \E spectrum \in Spectra : analyze(spectrum)
Query == \E range \in Queries : query(range)

NextAnalyzer == Analyze \/ Query

SpecAnalyzer == InitAnalyzer /\ [][NextAnalyzer]_vars

(***************************************************************************)
(* The audio source: the host connects an analyzer, initialized or not yet, *)
(* and paints static frames.                                               *)
(***************************************************************************)
ConnectAny == \E ready \in BOOLEAN : connect(ready)

\* init() of the connected analyzer completes
AnalyzerInit ==
    /\ audioAnalyzer /\ ~analyzerReady
    /\ analyzerReady' = TRUE
    /\ op' = "analyzer.init"
    /\ UNCHANGED <<isRunning, animationId, pending, nextHandle, now, audioAnalyzer,
                   controlParams, emphasisPositions, renderState, variant5>>
    /\ UNCHANGED <<arg, controlColors, colors, grainImageLoaded, app, analyzer>>

NextSource == ConnectAny \/ AnalyzerInit \/ FrameInterval \/ RenderStatic

SpecSource == Init /\ [][NextSource]_vars

(***************************************************************************)
(* Painting: the host changes the background and the grain intensity, the  *)
(* grain texture finishes loading at some moment, static frames are        *)
(* painted.                                                                *)
(***************************************************************************)
\* this.grainImage.onload
GrainImageLoads ==
    /\ ~grainImageLoaded
    /\ grainImageLoaded' = TRUE
    /\ op' = "onload"
    /\ UNCHANGED <<isRunning, animationId, pending, nextHandle, now, audioAnalyzer,
                   controlParams, emphasisPositions, renderState, variant5>>
    /\ UNCHANGED <<arg, controlColors, colors, analyzerReady, app, analyzer>>

SetBackground == \E color \in {White, Malformed} : setColor("background", color)
SetGrain == \E intensity \in {0, 50, 100} : setControlParams([grain |-> intensity])

NextPaint == SetBackground \/ SetGrain \/ GrainImageLoads \/ FrameInterval \/ RenderStatic

SpecPaint == Init /\ [][NextPaint]_vars

(***************************************************************************)
(* The field scale: the host moves the field-scale slider between static   *)
(* frames.                                                                 *)
(***************************************************************************)
FieldScales == {0, 25, 50, 75, 100}

SetFieldScale == \E value \in FieldScales : setControlParams([fieldScale |-> value])

NextScale == SetFieldScale \/ FrameInterval \/ RenderStatic

SpecScale == Init /\ [][NextScale]_vars

(***************************************************************************)
(* The application (class MusicVisualizerApp): it owns the audio element,  *)
(* the analyzer and the controls, keeps the settings of every song in      *)
(* localStorage and drives the visualizer.  A handler runs to completion;  *)
(* it is split only where it awaits something the browser completes later. *)
(***************************************************************************)
Songs == {"a", "b"}
NoSong == "none"
NoData == [saved |-> FALSE]

\* this.controlValues of the constructor
AppControlValues ==
    [attack |-> 0, decay |-> 0, inertia |-> 0, drift |-> 50,
     fieldScale |-> 0, overlap |-> 50, anchor |-> 50, grain |-> 0,
     lowEmphasis |-> 50, midEmphasis |-> 50, highEmphasis |-> 50,
     compression |-> 0]

\* the current values of this.positionControls
AppPositions ==
    [lowX |-> 50, lowY |-> 50, midX |-> 50, midY |-> 50, highX |-> 50, highY |-> 50]

\* the number n < 16 as a hexadecimal digit
HexDigit(n) ==
    <<"0", "1", "2", "3", "4", "5", "6", "7", "8", "9", "a", "b", "c", "d", "e", "f">>[n + 1]

\* Math.round(v * 255) for v in units of 1/1200000
roundChannel(v) == (v * 510 + 1200000) \div 2400000

\* hslToHex(h, s, l) for an integer hue h and percentages s and l; c, x and m
\* are in units of 1/1200000
hslToHex(h, s, l) ==
    LET c  == (100 - Abs(2 * l - 100)) * s * 120
        x  == (c \div 60) * (60 - Abs((h % 120) - 60))
        m  == l * 12000 - c \div 2
        r1 == CASE h < 60 -> c [] h < 120 -> x [] h < 180 -> 0
                [] h < 240 -> 0 [] h < 300 -> x [] OTHER -> c
        g1 == CASE h < 60 -> x [] h < 120 -> c [] h < 180 -> c
                [] h < 240 -> x [] h < 300 -> 0 [] OTHER -> 0
        b1 == CASE h < 60 -> 0 [] h < 120 -> 0 [] h < 180 -> x
                [] h < 240 -> c [] h < 300 -> c [] OTHER -> x
        r  == roundChannel(r1 + m)
        g  == roundChannel(g1 + m)
        b  == roundChannel(b1 + m)
    IN  <<"#", HexDigit(r \div 16), HexDigit(r % 16), HexDigit(g \div 16),
          HexDigit(g % 16), HexDigit(b \div 16), HexDigit(b % 16)>>

\* the positions updateVisualizerPositions passes to setEmphasisPositions
positionsOf(a) ==
    [low  |-> [x |-> a.positions.lowX,  y |-> a.positions.lowY],
     mid  |-> [x |-> a.positions.midX,  y |-> a.positions.midY],
     high |-> [x |-> a.positions.highX, y |-> a.positions.highY]]

\* the entry saveState() writes for a song
songData(a) ==
    [saved |-> TRUE,
     baseBackground |-> a.picker,
     controlValues |-> a.controlValues,
     controlColors |-> a.controlColors,
     emphasisPositions |-> a.positions]

\* saveState()
saveState(a) ==
    IF a.currentSong = NoSong THEN a
    ELSE [a EXCEPT !.storage[a.currentSong] = songData(a)]

\* a saved entry of another origin: its fieldScale is not a slider value
Foreign ==
    [saved |-> TRUE,
     baseBackground |-> Hex("f", "0", "f", "0", "f", "0"),
     controlValues |-> [AppControlValues EXCEPT !.fieldScale = -100],
     controlColors |-> DefaultControlColors,
     emphasisPositions |-> AppPositions]

\* an <input type="color"> keeps a value only if it is #rrggbb, else #000000
pickerValue(color) ==
    IF Len(color) = 7 /\ color[1] = "#" /\ \A i \in 2..7 : IsHexChar(color[i])
    THEN color ELSE Hex("0", "0", "0", "0", "0", "0")

\* the assignments of loadColors(data) to the application's own state
loadColors(a, data) ==
    [a EXCEPT !.picker = pickerValue(data.baseBackground),
              !.controlValues = merge(a.controlValues, data.controlValues),
              !.controlColors = merge(a.controlColors, data.controlColors),
              !.positions = merge(a.positions, data.emphasisPositions)]

\* the assignments of generateHarmoniousColors() and resetEmphasisPositions()
\* for the hue Math.random() * 360 = baseHue
generateHarmoniousColors(a, baseHue) ==
    [a EXCEPT !.picker = hslToHex((baseHue + 180) % 360, 30, 15),
              !.controlColors =
                  [lowEmphasis  |-> hslToHex(baseHue, 80, 50),
                   midEmphasis  |-> hslToHex((baseHue + 60) % 360, 85, 60),
                   highEmphasis |-> hslToHex((baseHue + 270) % 360, 75, 65)],
              !.positions = AppPositions]

\* audio.pause(): a playing element pauses and fires 'pause'
audioPause(a) ==
    IF a.paused THEN a
    ELSE [a EXCEPT !.paused = TRUE, !.events = Append(a.events, "pause")]

\* audio.play(): a paused element plays and fires 'play'
audioPlay(a) ==
    IF a.paused
    THEN [a EXCEPT !.paused = FALSE, !.events = Append(a.events, "play")]
    ELSE a

\* what the handlers of the application leave alone in the visualizer
hostFrame == <<now, variant5, grainImageLoaded, analyzer>>

\* updateVisualizerParams(), updateVisualizerColors(), updateVisualizerPositions()
\* with the application's state a
updateVisualizerParams(a) == controlParams' = merge(controlParams, a.controlValues)
updateVisualizerColors(a) == controlColors' = merge(controlColors, a.controlColors)
updateVisualizerPositions(a) ==
    emphasisPositions' = merge(emphasisPositions, positionsOf(a))

\* this.visualizer.setColor('background', color)
setBackground(color) == colors' = [colors EXCEPT !.background = color]

\* init() from loadState() to updateVisualizerPositions()
InitControls ==
    /\ app.phase = "init"
    /\ app' = [app EXCEPT !.phase = "render"]
    /\ op' = "init"
    /\ arg' = positionsOf(app)
    /\ setBackground(app.picker)
    /\ updateVisualizerParams(app)
    /\ updateVisualizerColors(app)
    /\ updateVisualizerPositions(app)
    /\ UNCHANGED <<isRunning, animationId, pending, nextHandle, audioAnalyzer,
                   analyzerReady, renderState, hostFrame>>

\* init(): this.visualizer.renderStatic()
InitRender ==
    /\ app.phase = "render"
    /\ app' = [app EXCEPT !.phase = "ready"]
    /\ op' = "renderStatic"
    /\ renderFrame
    /\ UNCHANGED <<isRunning, animationId, pending, nextHandle, audioAnalyzer,
                   analyzerReady, controlParams, controlColors, emphasisPositions,
                   colors, arg, hostFrame>>

\* the application's stop(), shared by the stop button and handleFileUpload
stopped(a) == [audioPause(a) EXCEPT !.isPlaying = FALSE]

\* the audio events not yet handled are few
quiet == Len(app.events) < MaxEvents

\* the stop button
StopClick ==
    /\ app.phase = "ready"
    /\ app.enabled
    /\ quiet
    /\ app' = stopped(app)
    /\ op' = "app.stop"
    /\ stopLoop
    /\ renderFrame
    /\ UNCHANGED <<nextHandle, audioAnalyzer, analyzerReady, controlParams,
                   controlColors, emphasisPositions, colors, arg, hostFrame>>

\* handleFileUpload from line 299 on, for the application state a left by
\* stop(); `await this.audioAnalyzer.init()` awaits a function that never
\* suspends, so no event is handled before the handler continues
uploaded(a, song, baseHue, state) ==
    LET named == [a EXCEPT !.src = TRUE, !.currentSong = song, !.analyzer = TRUE,
                           !.context = IF a.analyzer THEN a.context ELSE state]
        data  == a.storage[song]
        set   == IF data.saved THEN loadColors(named, data)
                 ELSE generateHarmoniousColors(named, baseHue)
    IN  saveState([set EXCEPT !.enabled = TRUE, !.generated = ~data.saved])

\* the file input changes: handleFileUpload.  baseHue is the hue drawn when
\* colours are generated, state the state a new AudioContext starts in
handleFileUpload(song, baseHue, state) ==
    /\ app.phase = "ready"
    /\ quiet
    /\ op' = "upload"
    /\ arg' = song
    /\ stopLoop
    /\ renderFrame
    /\ UNCHANGED <<nextHandle, hostFrame>>
    /\ IF renderThrows
       THEN /\ app' = stopped(app)
            /\ UNCHANGED <<audioAnalyzer, analyzerReady, controlParams, controlColors,
                           emphasisPositions, colors>>
       ELSE /\ app' = uploaded(stopped(app), song, baseHue, state)
            /\ audioAnalyzer' = TRUE
            /\ analyzerReady' = TRUE
            /\ setBackground(IF app.storage[song].saved
                             THEN app.storage[song].baseBackground
                             ELSE app'.picker)
            /\ IF app.storage[song].saved
               THEN updateVisualizerParams(app')
               ELSE UNCHANGED controlParams
            /\ updateVisualizerColors(app')
            /\ updateVisualizerPositions(app')

\* the application after one more event of a control
edited(a) == [a EXCEPT !.edits = a.edits + 1]

\* the user may still move a control
editable == app.phase = "ready" /\ app.edits < MaxEdits

\* an 'input' event of a slider: parseInt(e.target.value) is a slider value
sliderInput(name, value) ==
    /\ editable
    /\ app' = [edited(app) EXCEPT !.controlValues[name] = value]
    /\ op' = "slider"
    /\ arg' = <<name, value>>
    /\ updateVisualizerParams(app')
    /\ UNCHANGED <<isRunning, animationId, pending, nextHandle, audioAnalyzer,
                   analyzerReady, controlColors, emphasisPositions, colors,
                   renderState, hostFrame>>

\* a 'change' event of a slider
sliderChange ==
    /\ editable
    /\ app' = saveState(edited(app))
    /\ op' = "saved"
    /\ UNCHANGED <<isRunning, animationId, pending, nextHandle, audioAnalyzer,
                   analyzerReady, controlParams, controlColors, emphasisPositions,
                   colors, arg, renderState, hostFrame>>

\* an 'input' event of the colour swatch of an emphasis control
colorInput(name, color) ==
    /\ editable
    /\ app' = saveState([edited(app) EXCEPT !.controlColors[name] = color])
    /\ op' = "color"
    /\ arg' = <<name, color>>
    /\ updateVisualizerColors(app')
    /\ UNCHANGED <<isRunning, animationId, pending, nextHandle, audioAnalyzer,
                   analyzerReady, controlParams, emphasisPositions, colors,
                   renderState, hostFrame>>

\* an 'input' event of a background colour picker
backgroundInput(color) ==
    /\ editable
    /\ app' = saveState([edited(app) EXCEPT !.picker = color])
    /\ op' = "background"
    /\ arg' = color
    /\ setBackground(color)
    /\ UNCHANGED <<isRunning, animationId, pending, nextHandle, audioAnalyzer,
                   analyzerReady, controlParams, controlColors, emphasisPositions,
                   renderState, hostFrame>>

\* the continuation of togglePlay() after `await this.audioAnalyzer.resume()`
toggled(a) ==
    LET resumed == [a EXCEPT !.resumed = TRUE, !.context = "running"]
    IN  IF a.isPlaying THEN audioPause(resumed) ELSE audioPlay(resumed)

appOnly == <<isRunning, animationId, pending, nextHandle, audioAnalyzer, analyzerReady,
             controlParams, controlColors, emphasisPositions, colors, arg,
             renderState, hostFrame>>

\* the play button: togglePlay().  resume() of a running context does not
\* suspend the handler; resume() of a suspended one completes later
PlayClick ==
    /\ app.phase = "ready"
    /\ app.enabled
    /\ app.src
    /\ ~app.toggling
    /\ quiet
    /\ app' = IF app.context = "suspended"
              THEN [app EXCEPT !.toggling = TRUE]
              ELSE toggled(app)
    /\ op' = "togglePlay"
    /\ UNCHANGED appOnly

\* the audio context has resumed: togglePlay() continues
ResumeCompletes ==
    /\ app.toggling
    /\ quiet
    /\ app' = [toggled(app) EXCEPT !.toggling = FALSE]
    /\ op' = "resumed"
    /\ UNCHANGED appOnly

\* playback reaches the end of the song: the element pauses and fires 'ended'
AudioEnds ==
    /\ app.phase = "ready"
    /\ ~app.paused
    /\ app.events = << >>
    /\ app' = [app EXCEPT !.paused = TRUE, !.events = app.events \o <<"pause", "ended">>]
    /\ op' = "audio"
    /\ UNCHANGED appOnly

\* the 'play' event: onPlay()
onPlay ==
    /\ app.events # << >> /\ Head(app.events) = "play"
    /\ app' = [app EXCEPT !.events = Tail(app.events), !.isPlaying = TRUE]
    /\ op' = "onPlay"
    /\ startLoop
    /\ UNCHANGED <<audioAnalyzer, analyzerReady, controlParams, controlColors,
                   emphasisPositions, colors, arg, hostFrame>>

\* faulty variant: the 'pause' event stops the loop
onPauseStops ==
    /\ app.events # << >> /\ Head(app.events) = "pause"
    /\ app' = [app EXCEPT !.events = Tail(app.events), !.isPlaying = FALSE]
    /\ op' = "onPause"
    /\ stopLoop
    /\ UNCHANGED <<nextHandle, audioAnalyzer, analyzerReady, controlParams, controlColors,
                   emphasisPositions, colors, arg, renderState, hostFrame>>

\* the 'pause' event: onPause()
onPause ==
    /\ app.events # << >> /\ Head(app.events) = "pause"
    /\ app' = [app EXCEPT !.events = Tail(app.events), !.isPlaying = FALSE]
    /\ op' = "onPause"
    /\ UNCHANGED appOnly

\* the 'ended' event: onAudioEnded()
onAudioEnded ==
    /\ app.events # << >> /\ Head(app.events) = "ended"
    /\ app' = [app EXCEPT !.events = Tail(app.events), !.isPlaying = FALSE]
    /\ op' = "onAudioEnded"
    /\ stopLoop
    /\ renderFrame
    /\ UNCHANGED <<nextHandle, audioAnalyzer, analyzerReady, controlParams,
                   controlColors, emphasisPositions, colors, arg, hostFrame>>

\* the application after its constructor, up to `new Visualizer` in init()
NewApp ==
    [constructed |-> TRUE, phase |-> "init",
     controlValues |-> AppControlValues,
     controlColors |-> DefaultControlColors,
     positions |-> AppPositions,
     picker |-> Hex("1", "a", "1", "a", "2", "e"),
     analyzer |-> FALSE, context |-> "none", src |-> FALSE, currentSong |-> NoSong,
     isPlaying |-> FALSE, paused |-> TRUE, events |-> << >>, toggling |-> FALSE,
     resumed |-> FALSE, enabled |-> FALSE, generated |-> FALSE, edits |-> 0,
     storage |-> [song \in Songs |-> IF song = "b" THEN Foreign ELSE NoData]]

InitApp ==
    /\ isRunning = FALSE
    /\ animationId = Null
    /\ pending = {}
    /\ nextHandle = 1
    /\ now = 0
    /\ lastFrameTime = 0
    /\ audioAnalyzer = FALSE
    /\ controlParams = DefaultParams
    /\ smoothedAmplitudes = [b \in Bands |-> 0]
    /\ driftOffsets = [b \in Bands |-> Zero2]
    /\ driftVelocities \in { [b \in Bands |-> [x |-> 2500 * r[b].x, y |-> 2500 * r[b].y]] :
                               r \in HostDraws }
    /\ emphasisPositions = [b \in Bands |-> [x |-> 50, y |-> 50]]
    /\ frame = NoFrame
    /\ smoothed5 = Silent
    /\ frame5 = NoFrame5
    /\ op = "new"
    /\ arg = NoArg
    /\ controlColors = DefaultControlColors
    /\ colors = DefaultColors
    /\ analyzerReady = FALSE
    /\ grainImageLoaded = FALSE
    /\ canvas = NewCanvas
    /\ app = NewApp
    /\ analyzer = NoAnalyzer
    /\ drift5 = NoDrift5

\* hues Math.random() * 360 can give
Hues == {210}

\* the events of a session
Upload == \E song \in Songs, baseHue \in Hues, state \in {"suspended", "running"} :
              handleFileUpload(song, baseHue, state)
SliderInput == sliderInput("grain", 100)
ColorInput == colorInput("lowEmphasis", White)
BackgroundInput == backgroundInput(White)
Stall == app.phase = "ready" /\ now = lastFrameTime /\ advance({MaxDeltaTime})

NextApp ==
    \/ InitControls \/ InitRender \/ Upload \/ SliderInput \/ sliderChange
    \/ ColorInput \/ BackgroundInput \/ PlayClick \/ ResumeCompletes \/ StopClick
    \/ AudioEnds \/ onPlay \/ onPause \/ onAudioEnded \/ FrameTick \/ Stall

SpecApp == InitApp /\ [][NextApp]_vars

(***************************************************************************)
(* The steady state: the host passes the application's default slider     *)
(* values, or others, to a visualizer whose analyzer reports silence or    *)
(* sound; the background is changed; frames are painted.                   *)
(***************************************************************************)
SetSliders ==
    \E params \in {AppControlValues, [overlap |-> 100, compression |-> 100]} :
        setControlParams(params)

NextSteady == SetSliders \/ connectAnalyzer \/ SetBackground \/ FrameInterval \/ RenderStatic

SpecSteady == Init /\ [][NextSteady]_vars

(***************************************************************************)
(* Claims about the lifecycle.                                             *)
(***************************************************************************)
loopState == <<isRunning, animationId, pending, nextHandle>>

\* C1: start() while isRunning renders nothing and schedules nothing, and at
\* most one frame callback is pending in every reachable state.
C1_StartIdempotent ==
    /\ [](Cardinality(pending) <= 1)
    /\ [][(isRunning /\ op' = "start") => UNCHANGED <<loopState, renderState>>]_vars

\* start() was called while the loop was running: it did not render, so
\* lastFrameTime stayed behind the clock
C1_Witness == op = "start" /\ isRunning /\ lastFrameTime < now /\ pending # {}

\* C2: after stop() isRunning is false, animationId is null and no callback is
\* pending; while stopped only start() and renderStatic() render; stop() on a
\* stopped visualizer changes nothing.
C2_StopHalts ==
    /\ [](op = "stop" => (~isRunning /\ animationId = Null /\ pending = {}))
    /\ [][(~isRunning /\ frame'.n # frame.n) => op' \in {"start", "renderStatic"}]_vars
    /\ [][(op' = "stop" /\ ~isRunning /\ animationId = Null)
             => UNCHANGED <<loopState, renderState>>]_vars

\* stop() ended a loop that had been started and had scheduled a callback
C2_Witness == op = "stop" /\ nextHandle > 1 /\ frame.n >= 1

\* C3: renderStatic() renders exactly once and leaves isRunning, animationId and
\* the pending callbacks as they were, whether the loop is running or not.
C3_RenderStaticOnce ==
    [][op' = "renderStatic" => (frame'.n = frame.n + 1 /\ UNCHANGED loopState)]_vars

\* renderStatic() was called while the loop was running
C3_Witness == op = "renderStatic" /\ isRunning /\ pending # {} /\ frame.n >= 2

\* C10: the deltaTime of every render is at most 0.1 s and every render sets
\* lastFrameTime to the current time.
C10_DeltaTimeClamped ==
    /\ [](frame.deltaTime <= MaxDeltaTime)
    /\ [][frame'.n # frame.n => lastFrameTime' = now]_vars

\* a render after a stall longer than 0.1 s
C10_Witness == frame.n >= 1 /\ frame.elapsed > MaxDeltaTime /\ frame.deltaTime = MaxDeltaTime

(***************************************************************************)
(* Claims about the amplitude pipeline.                                    *)
(***************************************************************************)
\* the state is the one render() left: no setter ran since
afterRender == op = "renderStatic" /\ frame.n >= 1

\* C6: every persistent smoothed amplitude and every final (compressed)
\* amplitude lies in [0, 1].
C6_AmplitudesInUnitRange ==
    \A b \in Bands :
        /\ 0 <= smoothedAmplitudes[b] /\ smoothedAmplitudes[b] <= AmpUnit
        /\ 0 <= frame.final[b] /\ frame.final[b] <= AmpUnit

\* a doubled amplitude was capped, smoothed and compressed toward 0.5
C6_Witness ==
    /\ afterRender /\ frame.n >= 2
    /\ controlParams.lowEmphasis = 100 /\ controlParams.compression = 100
    /\ frame.raw["bass"] = AmpUnit
    /\ smoothedAmplitudes["low"] > Half
    /\ frame.final["low"] < smoothedAmplitudes["low"]

\* C8: a smoothing step with deltaTime in (0, 0.1] strictly reduces the distance
\* to the target when there is one, never passes the target, and uses the attack
\* rate exactly when target > current, otherwise the decay rate.
C8_SmootherApproaches ==
    (afterRender /\ frame.deltaTime > 0) =>
        \A b \in Bands :
            LET target == frame.targets[b]
                previous == frame.previous[b]
                current == smoothedAmplitudes[b]
            IN  /\ previous # target => Abs(target - current) < Abs(target - previous)
                /\ previous <= target => (previous <= current /\ current <= target)
                /\ previous >= target => (target <= current /\ current <= previous)
                /\ frame.speeds[b] =
                      (IF target > previous THEN attackSpeed(controlParams)
                                            ELSE decaySpeed(controlParams))
                      * (1000 - 9 * controlParams.inertia)

\* one band rose at the slow attack rate while another fell at the fast decay rate
C8_Witness ==
    /\ afterRender /\ frame.deltaTime > 0
    /\ controlParams.attack = 100 /\ controlParams.decay = 0
    /\ \E b \in Bands : frame.previous[b] < smoothedAmplitudes[b]
                        /\ smoothedAmplitudes[b] < frame.targets[b]
    /\ \E b \in Bands : frame.previous[b] > smoothedAmplitudes[b]
                        /\ smoothedAmplitudes[b] > frame.targets[b]

instantFrame ==
    /\ afterRender /\ frame.deltaTime = FrameTicks
    /\ controlParams.attack = 0 /\ controlParams.decay = 0 /\ controlParams.inertia = 0

C4_DriftBounded ==
    (afterRender /\ controlParams.drift > 0) =>
        \A b \in Bands :
            Norm2(driftOffsets[b]) <= effectiveRadius(controlParams) * effectiveRadius(controlParams)

\* the sliders shrank the container between two frames and the hard boundary
\* brought an offset from outside onto it
C4_Witness ==
    /\ afterRender /\ frame.n >= 2
    /\ controlParams.drift = 1 /\ controlParams.anchor = 100
    /\ \E b \in Bands :
          Norm2(driftOffsets[b]) > (effectiveRadius(controlParams) - 2)
                                   * (effectiveRadius(controlParams) - 2)

\* C5 as stated: each band's circles are drawn at the position from
\* calculateCirclePositions plus the band's drift offset.
C5_CentredAtAnchorPlusDrift ==
    afterRender =>
        \A b \in Bands :
            LET anchor == calculateCirclePositions(emphasisPositions, b)
            IN  /\ frame.centres[b].left = [x |-> anchor.left.x + driftOffsets[b].x,
                                            y |-> anchor.left.y + driftOffsets[b].y]
                /\ frame.centres[b].right = [x |-> anchor.right.x + driftOffsets[b].x,
                                             y |-> anchor.right.y + driftOffsets[b].y]

(***************************************************************************)
(* Claims about the order of the pipeline.                                 *)
(***************************************************************************)
\* C7 as stated, for the 5-band variant: the smoothing target is the emphasized
\* amplitude and the drawn amplitude is the compressed smoothed amplitude.
C7_EmphasisSmoothingCompression ==
    (op = "renderStatic" /\ frame5.n >= 1) =>
        \A r \in Ranges :
            /\ frame5.targets[r] = frame5.emphasized[r]
            /\ frame5.final[r] = applyCompression(smoothed5[r], controlParams.compression)

(***************************************************************************)
(* Claims about the setters.                                               *)
(***************************************************************************)
\* the object is the old one with the keys of the argument overwritten
merged(old, new, params) ==
    /\ DOMAIN new = DOMAIN old \cup DOMAIN params
    /\ \A k \in DOMAIN new : new[k] = IF k \in DOMAIN params THEN params[k] ELSE old[k]

\* C11: after setControlParams or setControlColors with a partial map every key
\* of the argument has the new value and every other key keeps its value.
C11_MergeSemantics ==
    [][/\ op' = "setControlParams" => merged(controlParams, controlParams', arg')
       /\ op' = "setControlColors" => merged(controlColors, controlColors', arg')]_vars

\* a partial map was merged into parameters and colours that earlier calls had
\* changed: the earlier values of the other keys are still there
C11_Witness ==
    /\ op = "setControlParams" /\ arg = [fieldScale |-> 100]
    /\ controlParams.fieldScale = 100 /\ controlParams.grain = 50
    /\ controlParams.compression = 100 /\ controlParams.attack = 0
    /\ controlColors.lowEmphasis = White /\ controlColors.midEmphasis = Typed

\* C12: a render uses the values the setters stored last, all of them: the
\* parameters, the colours of the bands, the positions and the background.
C12_SettersTakeEffectNextFrame ==
    afterRender =>
        /\ frame.colors = [b \in Bands |-> controlColors[ColorKey(b)]]
        /\ frame.centres = [b \in Bands |-> calculateCirclePositions(emphasisPositions, b)]
        /\ frame.isLightBg = (lightness(hexToRgb(colors.background)) > 5000)
        /\ frame.multiplier = 300 + 17 * controlParams.fieldScale
        /\ \A b \in Bands :
              frame.final[b] = applyCompression(smoothedAmplitudes[b], controlParams.compression)

\* all four setters were called between two frames and the second frame shows
\* the new values
C12_Witness ==
    /\ afterRender /\ frame.n >= 2
    /\ frame.colors["low"] = White /\ frame.colors["mid"] = Typed
    /\ frame.centres["low"].left.x = CanvasWidth \div 2
    /\ frame.isLightBg
    /\ frame.multiplier = 2000
    /\ frame.final["low"] = 4 * (AmpUnit \div 10)

(***************************************************************************)
(* Claims about the application and the visualizer together.               *)
(***************************************************************************)
\* C13: every value of controlParams lies in [0, 100] after any
\* setControlParams call, whether the values come from a slider or from the
\* entry loadColors reads from localStorage.
C13_ParamsInRange ==
    \A k \in DOMAIN controlParams : controlParams[k] >= 0 /\ controlParams[k] <= 100

\* C14: while the loop is running a frame callback is pending: no render
\* aborts and leaves isRunning true with nothing scheduled.
C14_NoFrameFatal == isRunning => animationId \in pending

\* C17: a render calls analyze() only after a resume() of the analyzer has
\* completed.
C17_AnalyzeAfterResume == frame.analysis # NotCalled => app.resumed

(***************************************************************************)
(* Claims about the audio source.                                          *)
(***************************************************************************)
\* C16: a frame painted while no analyzer is connected, or while the connected
\* analyzer is not initialized (analyze() returns undefined), uses 0 for all
\* five raw amplitudes, and its render returns normally.
C16_SilentWithoutSource ==
    [][(frame'.n # frame.n /\ (~audioAnalyzer \/ ~analyzerReady))
          => (frame'.raw = Silent /\ frame'.returned)]_vars

\* a frame was painted with an analyzer connected whose analyze() returned
\* undefined, after a frame painted with no analyzer at all
C16_Witness ==
    /\ frame.n = 2 /\ audioAnalyzer /\ ~analyzerReady
    /\ frame.analysis = Undefined /\ frame.raw = Silent /\ frame.returned

(***************************************************************************)
(* Claims about painting.                                                  *)
(***************************************************************************)
\* C20: the bands of a frame are blended with 'multiply' exactly when the HSL
\* lightness of the background is above 50 and with 'screen' otherwise, a
\* malformed background counting as dark; when render returns, the composite
\* operation of the main and of the offscreen context is 'source-over', also
\* after grain passes that switched to 'soft-light'.
C20_CompositeProtocol ==
    afterRender =>
        LET blend == IF lightness(hexToRgb(colors.background)) > 5000
                     THEN "multiply" ELSE "screen"
        IN  /\ canvas.circleCtx.circle = {blend}
            /\ canvas.ctx.image = {blend}
            /\ colors.background = Malformed => blend = "screen"
            /\ canvas.ctx.op = "source-over"
            /\ canvas.circleCtx.op = "source-over"

\* a frame on a light background with grain passes between the circles
C20_Witness ==
    /\ afterRender
    /\ colors.background = White
    /\ canvas.circleCtx.grain = {"soft-light"}
    /\ canvas.circleCtx.circle = {"multiply"}
    /\ canvas.circleCtx.op = "source-over"

(***************************************************************************)
(* Claims about the field scale.                                           *)
(***************************************************************************)
\* C19: the multiplier applied to minRadius and maxRadius is 0.3 at
\* fieldScale = 0, exactly 1 at fieldScale = 50 and 2 at fieldScale = 100
\* (in units of 1/1000: 300, 1000, 2000).
C19_FieldScaleAnchors ==
    afterRender =>
        /\ controlParams.fieldScale = 0   => frame.multiplier = 300
        /\ controlParams.fieldScale = 50  => frame.multiplier = 1000
        /\ controlParams.fieldScale = 100 => frame.multiplier = 2000

(***************************************************************************)
(* Claims about the analyzer.                                              *)
(***************************************************************************)
\* C18: getAverageAmplitude returns the mean of the bins with index i,
\* minBin <= i < maxBin (upper bin excluded), divided by 255, and 0 when
\* minBin >= maxBin.
C18_UpperBinExcluded ==
    op = "getAverageAmplitude" =>
        LET minBin == (analyzer.range.min * 2 * BufferLength) \div analyzer.sampleRate
            maxBin == Min((analyzer.range.max * 2 * BufferLength) \div analyzer.sampleRate,
                          BufferLength - 1)
            claimed == IF minBin >= maxBin THEN [num |-> 0, den |-> 1]
                       ELSE [num |-> sumBins(analyzer.dataArray, minBin, maxBin - 1),
                             den |-> (maxBin - minBin) * 255]
        IN  analyzer.amplitude.num * claimed.den = claimed.num * analyzer.amplitude.den

(***************************************************************************)
(* Claims about the drift of the 5-band variant.                           *)
(***************************************************************************)
\* C15: for every drift and anchor in [0, 100] and frame time in [0, 0.1] s
\* the drift update never divides by zero and leaves every position and
\* velocity finite, drift = 0 (zero maximum drift distance) included.
C15_DriftFinite ==
    \A r \in Ranges : ~drift5.positions[r].x.nan /\ ~drift5.positions[r].y.nan

(***************************************************************************)
(* Claims about the grain texture.                                         *)
(***************************************************************************)
\* C21: a frame rendered while the grain image has not loaded draws no grain
\* and leaves the offscreen context as a frame without grain leaves it, for
\* every grain intensity; once the image has loaded, grain is drawn only for
\* an intensity above 0 and with an alpha of at most 0.5.
C21_GrainNeedsTexture ==
    afterRender =>
        /\ ~grainImageLoaded =>
              canvas.circleCtx = execute(Context("source-over"),
                                         circleCalls(frame.isLightBg, FALSE, 0))
        /\ canvas.circleCtx.grain # {} => grainImageLoaded /\ controlParams.grain > 0
        /\ \A a \in canvas.circleCtx.alphas : a <= 500
        /\ canvas.circleCtx.alpha = 1000

C21_Witness ==
    /\ afterRender
    /\ ~grainImageLoaded
    /\ controlParams.grain = 100
    /\ canvas.circleCtx.grain = {}
    /\ frame.n = 2

(***************************************************************************)
(* Claims about the return to the anchors.                                 *)
(***************************************************************************)
atAnchors == \A b \in Bands : driftOffsets[b] = Zero2

\* C22: while drift = 0 a frame increases neither |offset.x| nor |offset.y| of
\* any band and keeps an offset of (0,0) at (0,0); with drift = 0 and frames
\* being painted, every band's offset becomes exactly (0,0).
C22_DriftZeroing ==
    /\ [][(controlParams.drift = 0 /\ frame'.n # frame.n) =>
            \A b \in Bands :
                /\ Abs(driftOffsets'[b].x) <= Abs(driftOffsets[b].x)
                /\ Abs(driftOffsets'[b].y) <= Abs(driftOffsets[b].y)
                /\ driftOffsets[b] = Zero2 => driftOffsets'[b] = Zero2]_vars
    /\ (controlParams.drift = 0) ~> (atAnchors \/ controlParams.drift # 0)

C22_Witness ==
    /\ controlParams.drift = 0
    /\ atAnchors
    /\ op = "renderStatic"
    /\ frame.n >= 40

(***************************************************************************)
(* Claims about the silent steady state.                                   *)
(***************************************************************************)
\* C23: with the application's default slider values, the default (dark)
\* background, silent input and smoothed amplitudes of 0, a frame draws every
\* band with the radius minRadius * fieldScaleMultiplier and the opacity
\* minOpacity + 0.3 * overlap / 100, and leaves the smoothed amplitudes at 0.
C23_SilentSteadyState ==
    [][(/\ frame'.n # frame.n
        /\ controlParams = AppControlValues
        /\ colors.background = DefaultColors.background
        /\ frame'.raw = Silent
        /\ smoothedAmplitudes = [b \in Bands |-> 0])
        => /\ \A b \in Bands :
                /\ frame'.radius[b] = 10 * fieldScaleMultiplier(controlParams)
                /\ frame'.radius[b] = 3000
                /\ frame'.opacity[b] = 30 + 3 * controlParams.overlap
                /\ frame'.opacity[b] = 180
           /\ smoothedAmplitudes' = [b \in Bands |-> 0]
           /\ frame'.returned]_vars

C23_Witness ==
    /\ frame.n = 2
    /\ controlParams = AppControlValues
    /\ colors.background = DefaultColors.background
    /\ frame.raw = Silent
    /\ frame.previous = [b \in Bands |-> 0]
    /\ audioAnalyzer
    /\ \A b \in Bands : frame.radius[b] = 3000 /\ frame.opacity[b] = 180
    /\ op \in {"renderStatic", "frame"}

(***************************************************************************)
(* Claims about the shaping functions.                                     *)
(***************************************************************************)
\* C24: for an amplitude a in [0, 1] and an emphasis e in [0, 100]
\* applyEmphasis returns a value in [0, 1], a at e = 50, 0 at e = 0 and
\* min(1, 2a) at e = 100, and for a fixed a > 0 a larger e never gives a
\* smaller result.
C24_EmphasisLaw ==
    /\ [](op = "applyEmphasis" =>
            /\ arg.result >= 0 /\ arg.result <= AmpUnit
            /\ arg.value = 50 => arg.result = arg.amplitude
            /\ arg.value = 0 => arg.result = 0
            /\ arg.value = 100 => arg.result = Min(AmpUnit, 2 * arg.amplitude))
    /\ [][(/\ op = "applyEmphasis" /\ op' = "applyEmphasis"
           /\ arg'.amplitude = arg.amplitude /\ arg.amplitude > 0
           /\ arg'.value >= arg.value)
           => arg'.result >= arg.result]_vars

C24_Witness ==
    /\ op = "applyEmphasis"
    /\ arg.amplitude = 6 * (AmpUnit \div 10)
    /\ arg.value = 100
    /\ arg.result = AmpUnit

\* C25: for an amplitude a in [0, 1] and a compression c in [0, 100]
\* applyCompression returns a at c = 0, at c = 100 a value on the same side of
\* 0.5 as a at 20% of a's distance from 0.5, and a larger c never gives a
\* larger distance from 0.5.
C25_CompressionLaw ==
    /\ [](op = "applyCompression" =>
            /\ arg.value = 0 => arg.result = arg.amplitude
            /\ arg.value = 100 =>
                  /\ 5 * (arg.result - Half) = arg.amplitude - Half
                  /\ Sign(arg.result - Half) = Sign(arg.amplitude - Half))
    /\ [][(/\ op = "applyCompression" /\ op' = "applyCompression"
           /\ arg'.amplitude = arg.amplitude
           /\ arg'.value >= arg.value)
           => Abs(arg'.result - Half) <= Abs(arg.result - Half)]_vars

C25_Witness ==
    /\ op = "applyCompression"
    /\ arg.amplitude = AmpUnit
    /\ arg.value = 100
    /\ arg.result = 6 * (AmpUnit \div 10)

(***************************************************************************)
(* Claims about uploads.                                                   *)
(***************************************************************************)
\* C26: every upload of a song without a saved entry ends with the song as
\* the current song and with newly generated harmonious colours in the
\* pickers and in the visualizer.
C26_UploadGenerates ==
    [][(op' = "upload" /\ ~app.storage[arg'].saved) =>
          /\ app'.currentSong = arg'
          /\ app'.generated
          /\ \E baseHue \in Hues :
                /\ app'.picker = hslToHex((baseHue + 180) % 360, 30, 15)
                /\ controlColors'.lowEmphasis = hslToHex(baseHue, 80, 50)
                /\ colors'.background = app'.picker]_vars

(***************************************************************************)
(* Claims about colour changes.                                            *)
(***************************************************************************)
\* C27: after an input event of an emphasis or background colour picker a
\* frame with the new colour is painted without a further user action: the
\* handler has painted it, or the loop is running with a frame callback
\* pending.
C27_ColorPainted ==
    op \in {"color", "background"} =>
        \/ isRunning /\ animationId \in pending
        \/ /\ frame.colors = bandColors(controlColors)
           /\ frame.isLightBg = (getBackgroundLightness(colors) > 5000)

(***************************************************************************)
(* Claims about the simulation state.                                      *)
(***************************************************************************)
simulation == <<smoothedAmplitudes, driftOffsets, driftVelocities>>

\* C28 as stated: start(), stop(), the setters, connectAnalyzer and
\* resizeCanvas leave smoothedAmplitudes, driftOffsets and driftVelocities
\* unchanged.
C28_OnlyRenderChanges ==
    [][op' \in {"start", "stop", "setControlParams", "setControlColors",
                "setEmphasisPositions", "setColor", "connectAnalyzer", "resizeCanvas"}
          => UNCHANGED simulation]_vars

\* C28: stop(), the setters, connectAnalyzer and resizeCanvas leave
\* smoothedAmplitudes, driftOffsets and driftVelocities unchanged; start()
\* leaves them unchanged when the loop is running and otherwise changes them
\* only by the frame it renders before it returns, which continues from the
\* previous values.
C28_NoReset ==
    [][/\ op' \in {"stop", "setControlParams", "setControlColors",
                   "setEmphasisPositions", "setColor", "connectAnalyzer", "resizeCanvas"}
            => UNCHANGED simulation
       /\ op' = "start" =>
            \/ isRunning /\ UNCHANGED simulation /\ frame'.n = frame.n
            \/ /\ ~isRunning
               /\ frame'.n = frame.n + 1
               /\ frame'.previous = smoothedAmplitudes
               /\ \E rnd \in draws :
                     LET drift == updateDriftOffsets(controlParams, driftOffsets,
                                                     driftVelocities, frame'.deltaTime, rnd)
                     IN  /\ driftOffsets' = drift.offsets
                         /\ driftVelocities' = drift.velocities]_vars

C28_Witness ==
    /\ op = "start"
    /\ frame.n = 2
    /\ frame.previous # [b \in Bands |-> 0]
    /\ smoothedAmplitudes # frame.previous
    /\ \E b \in Bands : driftOffsets[b] # Zero2

(***************************************************************************)
(* Claims about the audio events.                                          *)
(***************************************************************************)
\* C29: the 'pause' event changes only state.isPlaying: the loop, its frame
\* callback and the painted frame stay as they are; isRunning becomes false
\* only in the application's stop() (the stop button and the start of an
\* upload) and in the 'ended' event, each of which renders one static frame.
C29_PauseKeepsLoop ==
    [][/\ op' = "onPause" =>
            /\ UNCHANGED <<isRunning, animationId, pending, nextHandle, renderState>>
            /\ app' = [app EXCEPT !.events = Tail(app.events), !.isPlaying = FALSE]
       /\ (isRunning /\ ~isRunning') =>
            /\ op' \in {"app.stop", "upload", "onAudioEnded"}
            /\ frame'.n = frame.n + 1
            /\ animationId' = Null]_vars

C29_Witness ==
    /\ op = "onPause"
    /\ isRunning
    /\ animationId \in pending
    /\ ~app.isPlaying
    /\ app.paused

(***************************************************************************)
(* Claims about the placement of the circles.                              *)
(***************************************************************************)
\* C30: in every frame the left and right centres of every band are
\* point-symmetric about the canvas centre: their x coordinates add up to
\* the canvas width and their y coordinates to the canvas height; with x = 0
\* both circles have the x coordinate of the centre line.
C30_PointSymmetric ==
    [][frame'.n # frame.n =>
          \A b \in Bands :
              LET c == frame'.centres[b]
              IN  /\ c.left.x + c.right.x = CanvasWidth
                  /\ c.left.y + c.right.y = CanvasHeight
                  /\ emphasisPositions[b].x = 0 =>
                        c.left.x = c.right.x /\ 2 * c.left.x = CanvasWidth]_vars

C30_Witness ==
    /\ op = "renderStatic"
    /\ emphasisPositions.low = [x |-> 0, y |-> 33]
    /\ emphasisPositions.mid = [x |-> 100, y |-> 0]
    /\ frame.centres.low.left.x = frame.centres.low.right.x
    /\ frame.centres.low.left.y # frame.centres.low.right.y
    /\ frame.centres.mid.left = Zero2
    /\ frame.centres.mid.right = [x |-> CanvasWidth, y |-> CanvasHeight]

====
